---- MODULE Spec2Model ----
(***************************************************************************)
(* Subscription lifecycle of the carpool application as driven by the      *)
(* payment-processor webhook (src/src/app/auth/layout.tsx, POST).          *)
(*                                                                         *)
(* Every `await` of the handler is one step, so two deliveries handled at  *)
(* the same time interleave exactly at the points where the code yields.   *)
(* Each store call may also come back with an error and no effect, which   *)
(* is how supabase-js reports a failed request (it does not throw).        *)
(***************************************************************************)
EXTENDS Integers, FiniteSets, Sequences, TLC

\* ------------------------------------------------------------------ bounds
MaxRequests == 2        \* webhook deliveries received in one behaviour
MaxTick     == 1        \* the clock shows the instants 0 .. MaxTick
MaxPeriod   == 2        \* the processor's subscriptions are in period 1 .. MaxPeriod
MaxRows     == 2        \* route requests sent in one behaviour
MaxSessions == 2        \* checkout sessions created in one behaviour

\* ------------------------------------------------------------- the domain
Users    == {"u1", "u2"}
Handlers == 1 .. 2            \* request handlers running at the same time
None     == "none"            \* null / undefined / absent header or field

\* ------------------------------------------------------------------ dates
\* A JS Date is kept as [day, ms]: whole days since 2024-01-01T00:00Z and the
\* milliseconds within that day (one integer of milliseconds does not fit).
MsPerDay == 24 * 60 * 60 * 1000

\* new Date(ms)
DateFromMs(ms) == [day |-> ms \div MsPerDay, ms |-> ms % MsPerDay]

\* the instant the clock shows at tick i: 31 Jan 2024 12:00:00.000 and on
ClockAt(i) == [day |-> 30 + 30 * i, ms |-> 43200000 + i]

IsLeap(y) == (y % 4 = 0 /\ y % 100 # 0) \/ y % 400 = 0

DaysInMonth(y, m) ==
    IF m = 1 THEN (IF IsLeap(y) THEN 29 ELSE 28)
    ELSE IF m \in {3, 5, 8, 10} THEN 30 ELSE 31

DaysInYear(y) == IF IsLeap(y) THEN 366 ELSE 365

RECURSIVE DaysBeforeYear(_)
DaysBeforeYear(y) == IF y <= 2024 THEN 0 ELSE DaysBeforeYear(y - 1) + DaysInYear(y - 1)

RECURSIVE DaysBeforeMonth(_, _)
DaysBeforeMonth(y, m) == IF m = 0 THEN 0 ELSE DaysBeforeMonth(y, m - 1) + DaysInMonth(y, m - 1)

\* Date.getFullYear / getMonth (0-based) / getDate of a day number
RECURSIVE YearOfDay(_, _)
YearOfDay(d, y) == IF d < DaysBeforeYear(y + 1) THEN y ELSE YearOfDay(d, y + 1)
getFullYear(date) == YearOfDay(date.day, 2024)

RECURSIVE MonthOfDay(_, _, _)
MonthOfDay(doy, y, m) == IF doy < DaysBeforeMonth(y, m + 1) THEN m ELSE MonthOfDay(doy, y, m + 1)
getMonth(date) == MonthOfDay(date.day - DaysBeforeYear(getFullYear(date)), getFullYear(date), 0)

getDate(date) ==
    date.day - DaysBeforeYear(getFullYear(date))
             - DaysBeforeMonth(getFullYear(date), getMonth(date)) + 1

\* MakeDay of ECMAScript: the month may exceed 11 (it carries into the year)
\* and the day of the month may exceed the month's length (it runs on into
\* the following month).
MakeDay(y, m, dt) ==
    DaysBeforeYear(y + (m \div 12)) + DaysBeforeMonth(y + (m \div 12), m % 12) + dt - 1

\* date.setMonth(m): same year, day of month and time of day, month m
setMonth(date, m) == [day |-> MakeDay(getFullYear(date), m, getDate(date)), ms |-> date.ms]

\* date.setFullYear(y): same month, day of month and time of day, year y
setFullYear(date, y) == [day |-> MakeDay(y, getMonth(date), getDate(date)), ms |-> date.ms]

\* layout.tsx 119-128: the end date of a plan bought at `start`
PlanEndDate(start, planType) ==
    IF planType = "monthly" THEN setMonth(start, getMonth(start) + 1)
    ELSE IF planType = "quarterly" THEN setMonth(start, getMonth(start) + 3)
    ELSE IF planType = "yearly" THEN setFullYear(start, getFullYear(start) + 1)
    ELSE start

\* --------------------------------------------------- the payment processor
\* The processor's subscriptions. sub_1 is u1's: its price recurs monthly and
\* the object carries its current period, which moves on as the processor
\* renews. sub_2 is u2's: the object has no price item and carries no
\* current_period_start / current_period_end (period 0). sub_3 names no user.
SubIds == {"sub_1", "sub_2", "sub_3"}

SubMetaUser(s) == IF s = "sub_1" THEN "u1" ELSE IF s = "sub_2" THEN "u2" ELSE None
SubInterval(s) == IF s = "sub_1" THEN "month" ELSE IF s = "sub_3" THEN "year" ELSE None
SubUnitAmount(s) == IF s = "sub_1" THEN 357 ELSE IF s = "sub_3" THEN 1200 ELSE 0

\* period k runs from day k to day k + 1, in seconds, and a little into it
SecPerCycle == 24 * 60 * 60
PeriodStart(k) == IF k = 0 THEN 0 ELSE SecPerCycle * k + 7
PeriodEnd(k)   == IF k = 0 THEN 0 ELSE SecPerCycle * (k + 1) + 7

\* the periods the processor may report for a subscription
PeriodsOf(s) == IF s = "sub_1" THEN 1 .. MaxPeriod ELSE {0}

\* stripe.subscriptions.retrieve(id): the subscription object, in period k
Retrieve(s, k) ==
    [id |-> s,
     metadata_userId |-> SubMetaUser(s),
     current_period_start |-> PeriodStart(k),
     current_period_end |-> PeriodEnd(k),
     interval |-> SubInterval(s),
     unit_amount |-> SubUnitAmount(s)]

NoSubscription ==
    [id |-> None, metadata_userId |-> None, current_period_start |-> 0,
     current_period_end |-> 0, interval |-> None, unit_amount |-> 0]

\* ------------------------------------------------------------- the events
NoEvent ==
    [type |-> None, mode |-> None, client_reference_id |-> None,
     metadata_userId |-> None, planType |-> None, planPrice |-> None,
     subscription |-> None, status |-> None]

\* checkout sessions: who bought (client_reference_id, metadata.userId) and
\* the plan in the metadata (planType, planPrice); one session is a one-off
\* payment
CheckoutSessions ==
    {<<"u1", "u1", None, None>>, <<"u1", "u1", "yearly", "10000">>,
     <<None, "u2", "quarterly", "2700">>, <<None, None, None, None>>}

CheckoutEvents ==
    {[NoEvent EXCEPT !.type = "checkout.session.completed", !.mode = "subscription",
                     !.client_reference_id = c[1], !.metadata_userId = c[2],
                     !.planType = c[3], !.planPrice = c[4]] :
        c \in CheckoutSessions}
    \cup {[NoEvent EXCEPT !.type = "checkout.session.completed", !.mode = "payment",
                          !.client_reference_id = "u1", !.metadata_userId = "u1"]}

\* customer.subscription.*: the event carries a subscription object; the
\* processor sends customer.subscription.deleted for a canceled subscription
SubKinds ==
    {<<"customer.subscription.updated", "sub_1", "active">>,
     <<"customer.subscription.updated", "sub_1", "trialing">>,
     <<"customer.subscription.updated", "sub_1", "canceled">>,
     <<"customer.subscription.deleted", "sub_1", "canceled">>,
     <<"customer.subscription.updated", "sub_2", "trialing">>,
     <<"customer.subscription.deleted", "sub_2", "canceled">>,
     <<"customer.subscription.updated", "sub_3", "active">>}
SubscriptionEvents ==
    {[NoEvent EXCEPT !.type = k[1], !.subscription = k[2],
                     !.metadata_userId = SubMetaUser(k[2]), !.status = k[3]] :
        k \in SubKinds}

\* invoice.*: the invoice names its subscription, or none
InvoiceEvents ==
    {[NoEvent EXCEPT !.type = t, !.subscription = s] :
        t \in {"invoice.payment_succeeded", "invoice.payment_failed"},
        s \in SubIds \cup {None}}

OtherEvents == {[NoEvent EXCEPT !.type = "customer.created"]}

Events == CheckoutEvents \cup SubscriptionEvents \cup InvoiceEvents \cup OtherEvents

\* the stripe-signature header: absent, not verifying, verifying
Signatures == {None, "forged", "verified"}

\* --------------------------------------------------------------- the store
\* subscriptions: a set of rows, each with its own id. user_id is the conflict
\* target of the upserts (onConflict: 'user_id'), which the store accepts only
\* for a column with a unique index: an insert of a second row for a user is
\* refused with an error.
RowsOf(tbl, u) == {r \in tbl : r.user_id = u}

\* (mutant) user_id carries no unique index
NoUniqueUserId(tbl, u) == TRUE

UniqueUserId(tbl, u) == RowsOf(tbl, u) = {}

SubRow(id, u, planType, status, start, end, price) ==
    [id |-> id, user_id |-> u, plan_type |-> planType, status |-> status,
     start_date |-> start, end_date |-> end, price |-> price]

\* .select('id').eq('user_id', u).maybeSingle(): the row if there is exactly
\* one, null if there is none, null and an error if there are several
MaybeSingle(rows) ==
    [data |-> Cardinality(rows) = 1, error |-> Cardinality(rows) > 1]

\* .insert(row).select().single()
Insert(tbl, row) ==
    IF UniqueUserId(tbl, row.user_id)
    THEN [tbl |-> tbl \cup {row}, error |-> FALSE]
    ELSE [tbl |-> tbl, error |-> TRUE]

\* the fields of row r overwritten with those of row w, the id and the user kept
WithFields(r, w) ==
    [r EXCEPT !.plan_type = w.plan_type, !.status = w.status,
              !.start_date = w.start_date, !.end_date = w.end_date, !.price = w.price]

\* .update({...the five fields of w...}).eq('user_id', w.user_id).select()
\* .single(): an error, and nothing written, unless exactly one row matches
UpdateSingle(tbl, w) ==
    IF Cardinality(RowsOf(tbl, w.user_id)) = 1
    THEN [tbl |-> (tbl \ RowsOf(tbl, w.user_id)) \cup
                  {WithFields(r, w) : r \in RowsOf(tbl, w.user_id)},
          error |-> FALSE]
    ELSE [tbl |-> tbl, error |-> TRUE]

\* (mutant) the update is not restricted to the user's rows
UpdateStatusOfAll(tbl, u, st) == {[r EXCEPT !.status = st] : r \in tbl}

\* .update({ status: st }).eq('user_id', u): every matching row, none is fine
UpdateStatus(tbl, u, st) ==
    (tbl \ RowsOf(tbl, u)) \cup {[r EXCEPT !.status = st] : r \in RowsOf(tbl, u)}

\* (mutant) the upsert inserts without looking for a row of the same user
UpsertAppends(tbl, row) == tbl \cup {row}

\* .upsert(row, { onConflict: 'user_id' }): insert, or on a row of the same
\* user overwrite that row's fields
Upsert(tbl, row) ==
    IF RowsOf(tbl, row.user_id) = {}
    THEN tbl \cup {row}
    ELSE (tbl \ RowsOf(tbl, row.user_id)) \cup
         {WithFields(r, row) : r \in RowsOf(tbl, row.user_id)}

\* parseFloat of the metadata's price string ('0' when absent); prices are
\* kept in hundredths so that unit_amount / 100 stays an integer
parseFloat(str) ==
    IF str = "2700" THEN 270000
    ELSE IF str = "10000" THEN 1000000
    ELSE 0

\* ------------------------------------------------------------------- state
VARIABLES
    webhookSecret,   \* process.env.STRIPE_WEBHOOK_SECRET is set
    subscriptions,   \* the subscriptions table
    profiles,        \* the profiles table: user -> user_type, None if no row
    nextId,          \* the id the store gives the next subscriptions row
    tick,            \* the clock
    nreq,            \* deliveries received so far
    pc,              \* where each handler stands
    ev,              \* the event of the delivery a handler works on
    userId,          \* the handler's userId
    startDate,       \* the handler's startDate
    endDate,         \* the handler's endDate
    fullSubscription,\* the processor subscription the handler retrieved
    period,          \* the processor: the current period of sub_1
    failed,          \* the store writes of this handling that returned an error
    out              \* the response sent in the last step, if one was sent

\* the route pages: the tables they work on, and per browser tab the signed-in
\* user and the state of the FindRoutes and JoinRequests components
VARIABLES
    car_owner_routes,  \* the car_owner_routes table
    route_requests,    \* the route_requests table
    nextRequestId,     \* the id the store gives the next route_requests row
    session,           \* tab -> the user signed in there, None if nobody is
    page,              \* tab -> the page it shows: "find" or "requests"
    at,                \* tab -> where its running handler stands
    user,              \* tab -> the running handler's `user`
    pickupCoords,      \* FindRoutes: the rider's pickup point
    dropoffCoords,     \* FindRoutes: the rider's drop-off point
    allRoutes,         \* handleFindRoutes: the routes it fetched
    matchingRoutes,    \* FindRoutes: the match result shown
    selectedRoute,     \* FindRoutes: the route of the request dialog
    requestDialogOpen, \* FindRoutes: the request dialog is open
    requestMessage,    \* FindRoutes: the message typed in the dialog
    requestedSeats,    \* FindRoutes: the seat count chosen in the dialog
    routeIds,          \* loadRequests: the ids of the user's routes
    requests,          \* JoinRequests: the requests shown
    toast              \* the error toast of the last step, if it showed one

\* the middleware and the create-checkout-session route
VARIABLES
    mwAt,              \* middleware: where each handler stands
    pathname,          \* middleware: req.nextUrl.pathname of the handler's request
    cookie,            \* middleware: the request carries the cookie of a valid session
    answered,          \* middleware: the answer given in the last step, if one was
    coAt,              \* create-checkout-session: where the handler stands
    caller,            \* create-checkout-session: the user of the request's session
    body,              \* create-checkout-session: the body of the request
    checkoutSessions,  \* the processor: the checkout sessions created
    reply              \* create-checkout-session: the response sent in the last step

webhook ==
    <<webhookSecret, subscriptions, profiles, nextId, tick, period, nreq, pc, ev,
      userId, startDate, endDate, fullSubscription, failed, out>>

tables == <<car_owner_routes, route_requests, nextRequestId>>
dialog == <<selectedRoute, requestDialogOpen, requestMessage, requestedSeats>>
search == <<pickupCoords, dropoffCoords, allRoutes, matchingRoutes>>
pages == <<tables, session, page, at, user, search, dialog, routeIds, requests, toast>>

gate == <<mwAt, pathname, cookie, answered>>
checkout == <<coAt, caller, body, checkoutSessions, reply>>
server == <<gate, checkout>>

vars == <<webhook, pages, server>>

store == <<subscriptions, profiles, nextId>>
locals == <<userId, startDate, endDate, fullSubscription>>

NoDate == [day |-> 0, ms |-> 0]
\* no response was sent in the last step
NoOut ==
    [handler |-> 0, signature |-> None, event |-> NoEvent, status |-> 0,
     eventType |-> None, failed |-> {}]

\* a row left by a subscription of u1 that has run out
LapsedRow ==
    SubRow(1, "u1", "monthly", "expired", [day |-> 0, ms |-> 0], [day |-> 29, ms |-> 0], 100000)

WebhookInit ==
    /\ webhookSecret \in BOOLEAN
    /\ subscriptions = {LapsedRow}
    /\ profiles = [u \in Users |-> IF u = "u1" THEN "common_user" ELSE None]
    /\ nextId = Cardinality(subscriptions) + 1
    /\ tick = 0
    /\ nreq = 0
    /\ pc = [h \in Handlers |-> "idle"]
    /\ ev = [h \in Handlers |-> NoEvent]
    /\ userId = [h \in Handlers |-> None]
    /\ startDate = [h \in Handlers |-> NoDate]
    /\ endDate = [h \in Handlers |-> NoDate]
    /\ fullSubscription = [h \in Handlers |-> NoSubscription]
    /\ failed = [h \in Handlers |-> {}]
    /\ period = 1
    /\ out = NoOut

\* ------------------------------------------------------------- the handler
\* (mutant) a signature that is present is taken without being verified
GateStatusUnverified(secret, signature) ==
    IF ~secret THEN 500
    ELSE IF signature = None THEN 400
    ELSE 0

\* layout.tsx 54-85: what POST answers before it looks at the event; 0 when
\* the signature verifies and the event is handled
GateStatus(secret, signature) ==
    IF ~secret THEN 500
    ELSE IF signature = None THEN 400
    ELSE IF signature # "verified" THEN 400
    ELSE 0

\* layout.tsx 102-104
SessionUserId(e) ==
    IF e.client_reference_id # None THEN e.client_reference_id ELSE e.metadata_userId
SessionPlanType(e) == IF e.planType # None THEN e.planType ELSE "monthly"
SessionPlanPrice(e) == parseFloat(IF e.planPrice # None THEN e.planPrice ELSE "0")

\* (mutant) the checkout branch writes its row with status expired
CheckoutRowExpired(id, u, e, start, end) ==
    SubRow(id, u, SessionPlanType(e), "expired", start, end, SessionPlanPrice(e))

\* layout.tsx 179-185 and 197-204: the row the checkout branch writes
CheckoutRow(id, u, e, start, end) ==
    SubRow(id, u, SessionPlanType(e), "active", start, end, SessionPlanPrice(e))

\* (mutant) a trialing subscription is not taken for an active one
ProcessorActiveOnly(status) == status = "active"

\* layout.tsx 247
ProcessorActive(status) == status = "active" \/ status = "trialing"

\* (mutant) the checkout branch does not look at the mode of the session
DispatchAnyMode(e) ==
    IF e.type = "checkout.session.completed"
    THEN IF SessionUserId(e) = None THEN [pc |-> "idle", status |-> 400]
         ELSE [pc |-> "ckProfileCheck", status |-> 0]
    ELSE IF e.type \in {"customer.subscription.updated", "customer.subscription.deleted"}
    THEN IF e.metadata_userId = None THEN [pc |-> "idle", status |-> 200]
         ELSE IF ProcessorActive(e.status) THEN [pc |-> "subRetrieve", status |-> 0]
         ELSE [pc |-> "subExpire", status |-> 0]
    ELSE IF e.type = "invoice.payment_succeeded"
    THEN IF e.subscription = None THEN [pc |-> "idle", status |-> 200]
         ELSE [pc |-> "paidRetrieve", status |-> 0]
    ELSE IF e.type = "invoice.payment_failed"
    THEN IF e.subscription = None THEN [pc |-> "idle", status |-> 200]
         ELSE [pc |-> "unpaidRetrieve", status |-> 0]
    ELSE [pc |-> "idle", status |-> 200]

\* layout.tsx 92-346, up to the first await of each branch: the step the
\* handler takes next, or "idle" with the status it answers at once
Dispatch(e) ==
    IF e.type = "checkout.session.completed"
    THEN IF e.mode # "subscription" THEN [pc |-> "idle", status |-> 200]
         ELSE IF SessionUserId(e) = None THEN [pc |-> "idle", status |-> 400]
         ELSE [pc |-> "ckProfileCheck", status |-> 0]
    ELSE IF e.type \in {"customer.subscription.updated", "customer.subscription.deleted"}
    THEN IF e.metadata_userId = None THEN [pc |-> "idle", status |-> 200]
         ELSE IF ProcessorActive(e.status) THEN [pc |-> "subRetrieve", status |-> 0]
         ELSE [pc |-> "subExpire", status |-> 0]
    ELSE IF e.type = "invoice.payment_succeeded"
    THEN IF e.subscription = None THEN [pc |-> "idle", status |-> 200]
         ELSE [pc |-> "paidRetrieve", status |-> 0]
    ELSE IF e.type = "invoice.payment_failed"
    THEN IF e.subscription = None THEN [pc |-> "idle", status |-> 200]
         ELSE [pc |-> "unpaidRetrieve", status |-> 0]
    ELSE [pc |-> "idle", status |-> 200]

\* the JSON body names the event type on success only (layout.tsx 349)
Response(status, e) == [status |-> status, eventType |-> IF status = 200 THEN e.type ELSE None]

\* (mutant) the bound is taken for milliseconds
PeriodDateUnscaled(seconds, clock) == IF seconds # 0 THEN DateFromMs(seconds) ELSE clock

\* layout.tsx 253-258: a period bound of the processor, or now if it has none
PeriodDate(seconds, clock) == IF seconds # 0 THEN DateFromMs(seconds * 1000) ELSE clock

\* layout.tsx 262-268 and 307-313: the row the upsert writes
UpsertRow(id, u, sub, start, end) ==
    SubRow(id, u,
           IF sub.interval # None THEN sub.interval ELSE "monthly",
           "active", start, end,
           IF sub.unit_amount # 0 THEN sub.unit_amount ELSE 0)

\* (mutant) an error of the write is answered 500
AckUnlessError(error) == IF error THEN 500 ELSE 200

\* layout.tsx 260-279, 305-341, 348-349: the subscription and invoice
\* branches do not look at the result of their write and acknowledge
AckAfterWrite(error) == 200

\* layout.tsx 240-342: the table one handling of a subscription or invoice
\* event e leaves when the processor shows subscription sub, new Date() shows
\* clock, the store gives a new row the id `id`, and no call fails
Handled(tbl, id, e, sub, clock) ==
    LET u == IF e.type \in {"customer.subscription.updated", "customer.subscription.deleted"}
             THEN e.metadata_userId ELSE sub.metadata_userId
        row == UpsertRow(id, u, sub, PeriodDate(sub.current_period_start, clock),
                         PeriodDate(sub.current_period_end, clock))
    IN
    IF u = None THEN tbl
    ELSE IF e.type = "invoice.payment_succeeded" THEN Upsert(tbl, row)
    ELSE IF e.type = "invoice.payment_failed" THEN UpdateStatus(tbl, u, "expired")
    ELSE IF ProcessorActive(e.status) THEN Upsert(tbl, row)
    ELSE UpdateStatus(tbl, u, "expired")

\* the handler answers and is free for the next delivery; its local
\* variables are gone with the call. fl are the writes of this handling that
\* returned an error.
Answer(h, status, fl) ==
    /\ pc' = [pc EXCEPT ![h] = "idle"]
    /\ out' = [handler |-> h, signature |-> "verified", event |-> ev[h],
               status |-> status, eventType |-> Response(status, ev[h]).eventType,
               failed |-> fl]
    /\ ev' = [ev EXCEPT ![h] = NoEvent]
    /\ failed' = [failed EXCEPT ![h] = {}]
    /\ userId' = [userId EXCEPT ![h] = None]
    /\ startDate' = [startDate EXCEPT ![h] = NoDate]
    /\ endDate' = [endDate EXCEPT ![h] = NoDate]
    /\ fullSubscription' = [fullSubscription EXCEPT ![h] = NoSubscription]

Goto(h, step) ==
    /\ pc' = [pc EXCEPT ![h] = step]
    /\ out' = NoOut

\* the writes that returned an error, with this one if it did
Failed(h, call, error) == IF error THEN failed[h] \cup {call} ELSE failed[h]

\* new Date(): the clock is read, and shows the last reading or a later instant
ReadClock(t) ==
    /\ t \in tick .. MaxTick
    /\ tick' = t

\* a delivery goes to the first handler that is free
FirstFree(h) == pc[h] = "idle" /\ \A g \in Handlers : pc[g] = "idle" => ~(g < h)

\* layout.tsx 51-85: a delivery arrives while the webhook secret is missing,
\* or without a signature that verifies: it is answered at once, and `event`
\* is never assigned
Reject(h) ==
    /\ FirstFree(h)
    /\ nreq < MaxRequests
    /\ nreq' = nreq + 1
    /\ \E s \in Signatures, e \in Events :
        /\ GateStatus(webhookSecret, s) # 0
        /\ out' = [handler |-> h, signature |-> s, event |-> NoEvent,
                   status |-> GateStatus(webhookSecret, s), eventType |-> None,
                   failed |-> {}]
    /\ UNCHANGED <<pages, server, webhookSecret, store, tick, period, pc, ev, locals, failed>>

\* layout.tsx 51-136, 240-247, 282-290, 322-330, 344-349: a delivery arrives
\* and its signature verifies; everything up to the first await of the
\* event's branch, or up to the response if the branch has none
Receive(h) ==
    /\ FirstFree(h)
    /\ nreq < MaxRequests
    /\ nreq' = nreq + 1
    /\ \E s \in Signatures, e \in Events :
        /\ GateStatus(webhookSecret, s) = 0
        /\ IF Dispatch(e).pc = "idle"
           THEN /\ out' = [handler |-> h, signature |-> s, event |-> e,
                           status |-> Dispatch(e).status,
                           eventType |-> Response(Dispatch(e).status, e).eventType,
                           failed |-> {}]
                /\ UNCHANGED <<pc, ev, tick, locals>>
           ELSE /\ Goto(h, Dispatch(e).pc)
                /\ ev' = [ev EXCEPT ![h] = e]
                /\ UNCHANGED fullSubscription
                /\ IF Dispatch(e).pc = "ckProfileCheck"
                   THEN \E t \in 0 .. MaxTick :
                        /\ ReadClock(t)
                        /\ userId' = [userId EXCEPT ![h] = SessionUserId(e)]
                        /\ startDate' = [startDate EXCEPT ![h] = ClockAt(t)]
                        /\ endDate' = [endDate EXCEPT ![h] =
                                         PlanEndDate(ClockAt(t), SessionPlanType(e))]
                   ELSE /\ userId' = [userId EXCEPT ![h] =
                                        IF Dispatch(e).pc \in {"subRetrieve", "subExpire"}
                                        THEN e.metadata_userId ELSE None]
                        /\ UNCHANGED <<tick, startDate, endDate>>
    /\ UNCHANGED <<pages, server, webhookSecret, store, period, failed>>

\* layout.tsx 139-149: does the user have a profile
ProfileCheck(h) ==
    /\ pc[h] = "ckProfileCheck"
    /\ \E err \in BOOLEAN :
        /\ IF ~err /\ profiles[userId[h]] # None
           THEN Goto(h, "ckSubCheck")
           ELSE Goto(h, "ckProfileCreate")
    /\ UNCHANGED <<pages, server, webhookSecret, store, tick, period, nreq, ev, locals, failed>>

\* layout.tsx 152-161: create a basic profile; an error is logged
ProfileCreate(h) ==
    /\ pc[h] = "ckProfileCreate"
    /\ \E err \in BOOLEAN :
        LET createProfileError == err \/ profiles[userId[h]] # None IN
        /\ profiles' = IF createProfileError THEN profiles
                       ELSE [profiles EXCEPT ![userId[h]] = "common_user"]
        /\ failed' = [failed EXCEPT ![h] = Failed(h, "profileCreate", createProfileError)]
    /\ Goto(h, "ckSubCheck")
    /\ UNCHANGED <<pages, server, webhookSecret, subscriptions, nextId, tick, period, nreq, ev, locals>>

\* layout.tsx 165-174: does the user have a subscription row
SubCheck(h) ==
    /\ pc[h] = "ckSubCheck"
    /\ \E err \in BOOLEAN :
        LET existingSub == MaybeSingle(RowsOf(subscriptions, userId[h])) IN
        /\ IF ~err /\ existingSub.data
           THEN Goto(h, "ckSubUpdate")
           ELSE Goto(h, "ckSubInsert")
    /\ UNCHANGED <<pages, server, webhookSecret, store, tick, period, nreq, ev, locals, failed>>

\* layout.tsx 212-219: an error of the subscription write is answered 500
AfterSubWrite(h, subError) ==
    IF subError
    THEN Answer(h, 500, Failed(h, "subWrite", TRUE))
    ELSE Goto(h, "ckProfileUpdate") /\ UNCHANGED <<ev, locals, failed>>

\* layout.tsx 177-191: update the existing row
SubUpdate(h) ==
    /\ pc[h] = "ckSubUpdate"
    /\ \E err \in BOOLEAN :
        LET res == UpdateSingle(subscriptions,
                                CheckoutRow(0, userId[h], ev[h], startDate[h], endDate[h])) IN
        /\ subscriptions' = IF err THEN subscriptions ELSE res.tbl
        /\ AfterSubWrite(h, err \/ res.error)
    /\ UNCHANGED <<pages, server, webhookSecret, profiles, nextId, tick, period, nreq>>

\* layout.tsx 195-209: insert a new row
SubInsert(h) ==
    /\ pc[h] = "ckSubInsert"
    /\ \E err \in BOOLEAN :
        LET res == Insert(subscriptions,
                          CheckoutRow(nextId, userId[h], ev[h], startDate[h], endDate[h])) IN
        /\ subscriptions' = IF err THEN subscriptions ELSE res.tbl
        /\ nextId' = IF subscriptions' # subscriptions THEN nextId + 1 ELSE nextId
        /\ AfterSubWrite(h, err \/ res.error)
    /\ UNCHANGED <<pages, server, webhookSecret, profiles, tick, period, nreq>>

\* layout.tsx 224-233 and 348-349: set the profile to car_owner; an error is
\* logged, and the event is acknowledged
ProfileUpdate(h) ==
    /\ pc[h] = "ckProfileUpdate"
    /\ \E err \in BOOLEAN :
        /\ profiles' = IF err THEN profiles
                       ELSE [profiles EXCEPT ![userId[h]] =
                                IF @ = None THEN None ELSE "car_owner"]
        /\ Answer(h, 200, Failed(h, "profileUpdate", err))
    /\ UNCHANGED <<pages, server, webhookSecret, subscriptions, nextId, tick, period, nreq>>

\* layout.tsx 249-258, 291-303, 331-334: stripe.subscriptions.retrieve; it
\* throws when the processor cannot be reached, which POST answers with 500
\* (layout.tsx 350-361). The processor may have renewed the subscription
\* since it was last looked at. The invoice branches take the user from the
\* retrieved subscription and stop when it has none.
RetrieveStep(h, step, next) ==
    /\ pc[h] = step
    /\ \E throws \in BOOLEAN, k \in period .. MaxPeriod, t \in 0 .. MaxTick :
        LET s == ev[h].subscription
            sub == Retrieve(s, IF 0 \in PeriodsOf(s) THEN 0 ELSE k)
            u == IF step = "subRetrieve" THEN userId[h] ELSE sub.metadata_userId
            dated == ~throws /\ u # None /\ next # "unpaidExpire"
            clock == dated /\ (sub.current_period_start = 0 \/ sub.current_period_end = 0)
        IN
        /\ IF throws \/ 0 \in PeriodsOf(s) THEN k = period ELSE TRUE
        /\ period' = k
        /\ IF clock THEN ReadClock(t) ELSE t = tick /\ UNCHANGED tick
        /\ IF throws
           THEN Answer(h, 500, failed[h])
           ELSE IF u = None
           THEN Answer(h, 200, failed[h])
           ELSE /\ Goto(h, next)
                /\ fullSubscription' = [fullSubscription EXCEPT ![h] = sub]
                /\ userId' = [userId EXCEPT ![h] = u]
                /\ IF dated
                   THEN /\ startDate' = [startDate EXCEPT ![h] =
                                           PeriodDate(sub.current_period_start, ClockAt(t))]
                        /\ endDate' = [endDate EXCEPT ![h] =
                                         PeriodDate(sub.current_period_end, ClockAt(t))]
                   ELSE UNCHANGED <<startDate, endDate>>
                /\ UNCHANGED <<ev, failed>>
    /\ UNCHANGED <<pages, server, webhookSecret, store, nreq>>

SubscriptionRetrieve(h) == RetrieveStep(h, "subRetrieve", "subUpsert")
PaidRetrieve(h) == RetrieveStep(h, "paidRetrieve", "paidUpsert")
UnpaidRetrieve(h) == RetrieveStep(h, "unpaidRetrieve", "unpaidExpire")

\* layout.tsx 260-271, 305-316: the upsert; its result is not looked at
UpsertStep(h, step) ==
    /\ pc[h] = step
    /\ \E err \in BOOLEAN :
        /\ subscriptions' =
              IF err THEN subscriptions
              ELSE Upsert(subscriptions,
                          UpsertRow(nextId, userId[h], fullSubscription[h],
                                    startDate[h], endDate[h]))
        /\ nextId' = IF ~err /\ RowsOf(subscriptions, userId[h]) = {}
                     THEN nextId + 1 ELSE nextId
        /\ Answer(h, AckAfterWrite(err), Failed(h, "upsert", err))
    /\ UNCHANGED <<pages, server, webhookSecret, profiles, tick, period, nreq>>

SubscriptionUpsert(h) == UpsertStep(h, "subUpsert")
PaidUpsert(h) == UpsertStep(h, "paidUpsert")

\* (mutant) a staleness guard: a row that already runs to the end of the
\* processor's current period is left as it is
ExpireStepUnlessRenewed(h, step) ==
    /\ pc[h] = step
    /\ \E err \in BOOLEAN :
        /\ subscriptions' =
              IF err THEN subscriptions
              ELSE {IF r.end_date = PeriodDate(PeriodEnd(period), NoDate) THEN r
                    ELSE [r EXCEPT !.status = IF r.user_id = userId[h] THEN "expired" ELSE @] :
                       r \in subscriptions}
        /\ Answer(h, AckAfterWrite(err), Failed(h, "expire", err))
    /\ UNCHANGED <<pages, server, webhookSecret, profiles, nextId, tick, period, nreq>>

\* layout.tsx 274-277, 335-338: mark the user's row expired; the result is
\* not looked at
ExpireStep(h, step) ==
    /\ pc[h] = step
    /\ \E err \in BOOLEAN :
        /\ subscriptions' = IF err THEN subscriptions
                            ELSE UpdateStatus(subscriptions, userId[h], "expired")
        /\ Answer(h, AckAfterWrite(err), Failed(h, "expire", err))
    /\ UNCHANGED <<pages, server, webhookSecret, profiles, nextId, tick, period, nreq>>

SubscriptionExpire(h) == ExpireStep(h, "subExpire")
UnpaidExpire(h) == ExpireStep(h, "unpaidExpire")

Next ==
    \/ \E h \in Handlers : Reject(h)
    \/ \E h \in Handlers : Receive(h)
    \/ \E h \in Handlers : ProfileCheck(h)
    \/ \E h \in Handlers : ProfileCreate(h)
    \/ \E h \in Handlers : SubCheck(h)
    \/ \E h \in Handlers : SubUpdate(h)
    \/ \E h \in Handlers : SubInsert(h)
    \/ \E h \in Handlers : ProfileUpdate(h)
    \/ \E h \in Handlers : SubscriptionRetrieve(h)
    \/ \E h \in Handlers : SubscriptionUpsert(h)
    \/ \E h \in Handlers : SubscriptionExpire(h)
    \/ \E h \in Handlers : PaidRetrieve(h)
    \/ \E h \in Handlers : PaidUpsert(h)
    \/ \E h \in Handlers : UnpaidRetrieve(h)
    \/ \E h \in Handlers : UnpaidExpire(h)

\* ========================================================= the route pages
\* FindRoutes.tsx (search, request dialog) and the JoinRequests component
\* (src/unnamed/part_000), each running in a browser tab against the store.
\* Every await of a handler is one step.

\* ---------------------------------------------------------------- distance
\* All points of the model lie on one meridian, and a latitude is kept as the
\* length in metres of the arc from the equator (the angle in radians times
\* the radius R), so that it is an integer. For two points of one meridian
\* dLng = 0, a = sin(dLat/2)^2, c = |dLat|, and the haversine distance R * c
\* is the length of the arc between them. Distances are kept in metres.
MetresPerKm == 1000

Point(lat) == [lat |-> lat, lng |-> 0]

\* FindRoutes.tsx 57-69, for lng1 = lng2
calculateDistance(lat1, lng1, lat2, lng2) ==
    IF lat1 <= lat2 THEN lat2 - lat1 ELSE lat1 - lat2

MAX_DEVIATION_KM == 3

\* (mutant) one endpoint within the deviation is enough
WithinDeviationEither(route, pickup, dropoff) ==
    \/ calculateDistance(pickup.lat, pickup.lng, route.pickup_lat, route.pickup_lng)
          <= MAX_DEVIATION_KM * MetresPerKm
    \/ calculateDistance(dropoff.lat, dropoff.lng, route.dropoff_lat, route.dropoff_lng)
          <= MAX_DEVIATION_KM * MetresPerKm

\* FindRoutes.tsx 143-156: the predicate of the filter
WithinDeviation(route, pickup, dropoff) ==
    LET pickupDistance ==
            calculateDistance(pickup.lat, pickup.lng, route.pickup_lat, route.pickup_lng)
        dropoffDistance ==
            calculateDistance(dropoff.lat, dropoff.lng, route.dropoff_lat, route.dropoff_lng)
    IN pickupDistance <= MAX_DEVIATION_KM * MetresPerKm
       /\ dropoffDistance <= MAX_DEVIATION_KM * MetresPerKm

\* ------------------------------------------------------------ the tables
Tabs == 1 .. 2              \* browser tabs open at the same time

Route(id, owner, active, pickup, dropoff, seats) ==
    [id |-> id, car_owner_id |-> owner, is_active |-> active,
     pickup_lat |-> pickup.lat, pickup_lng |-> pickup.lng,
     dropoff_lat |-> dropoff.lat, dropoff_lng |-> dropoff.lng,
     seats_available |-> seats]

\* the routes on offer: three of u2 (one 3000 m and 3001 m off the other's
\* ends, one inactive) and one of u1
OfferedRoutes ==
    {Route("r1", "u2", TRUE, Point(0), Point(20000), 1),
     Route("r2", "u2", TRUE, Point(3000), Point(23001), 1),
     Route("r3", "u2", FALSE, Point(0), Point(20000), 1),
     Route("r4", "u1", TRUE, Point(0), Point(20000), 1)}

\* the points a rider picks on the map, pickup and drop-off; the picker may
\* give an address without coordinates
NoPoint == [lat |-> -1, lng |-> -1]
Trips ==
    {<<Point(0), Point(20000)>>, <<Point(0), Point(20001)>>,
     <<Point(6001), Point(20000)>>, <<NoPoint, Point(20000)>>}

Messages == {"", "hello"}

\* what can be typed into the seat input, as its characters: a count the
\* routes on offer have, one they do not have, zero, a negative count, text
\* without a number, and nothing
Digits == <<"0", "1", "2", "3", "4", "5", "6", "7", "8", "9">>
SeatTexts ==
    {<<"1">>, <<"2">>, <<"0">>, <<"-", "1">>, <<"1", "x">>, <<"a", "b", "c">>, <<>>}

NaN == [number |-> FALSE, value |-> 0]
Number(n) == [number |-> TRUE, value |-> n]
DigitValue(ch) == (CHOOSE i \in 1 .. Len(Digits) : Digits[i] = ch) - 1
IsDigit(ch) == \E i \in 1 .. Len(Digits) : Digits[i] = ch

\* the value of the longest run of digits text starts with, after acc
RECURSIVE LeadingDigits(_, _)
LeadingDigits(text, acc) ==
    IF text = <<>> \/ ~IsDigit(Head(text)) THEN acc
    ELSE LeadingDigits(Tail(text), 10 * acc + DigitValue(Head(text)))

\* parseInt(text): an optional sign and the digits that follow it, NaN
\* without a digit there
parseInt(text) ==
    LET signed == text # <<>> /\ Head(text) \in {"-", "+"}
        rest == IF signed THEN Tail(text) ELSE text
    IN IF rest = <<>> \/ ~IsDigit(Head(rest)) THEN NaN
       ELSE Number((IF signed /\ Head(text) = "-" THEN -1 ELSE 1) * LeadingDigits(rest, 0))

\* FindRoutes.tsx 430: x || 1, the number unless it is NaN or zero
OrOne(p) == IF ~p.number \/ p.value = 0 THEN 1 ELSE p.value

NoRoute == [id |-> None]

RequestRow(id, requester, route, status, message, seats) ==
    [id |-> id, requester_id |-> requester, route_id |-> route, status |-> status,
     message |-> message, requested_seats |-> seats]

\* .from('route_requests').select('id').eq('requester_id', u).eq('route_id', r)
RequestsOf(tbl, u, r) == {q \in tbl : q.requester_id = u /\ q.route_id = r}

\* FindRoutes.tsx 93-114: the routes the search fetches
\* (mutant) the fetch does not leave out the caller's routes
FetchRoutesOfAll(tbl, u) == {r \in tbl : r.is_active}

FetchRoutes(tbl, u) == {r \in tbl : r.is_active /\ r.car_owner_id # u}

\* tab 1 is the find page of rider u1; tab 2 is a second find page of u1, a
\* find page left open after signing out, or the requests page of u2 or u1
TabsOpen ==
    {<<"u1", "find">>, <<None, "find">>, <<"u2", "requests">>, <<"u1", "requests">>}

Toast(c, description) == [tab |-> c, description |-> description]
NoToast == Toast(0, None)

TabsInit ==
    /\ toast = NoToast
    /\ route_requests = {}
    /\ nextRequestId = 1
    /\ \E open \in TabsOpen :
        /\ session = [c \in Tabs |-> IF c = 1 THEN "u1" ELSE open[1]]
        /\ page = [c \in Tabs |-> IF c = 1 THEN "find" ELSE open[2]]
    /\ at = [c \in Tabs |-> "idle"]
    /\ user = [c \in Tabs |-> None]
    /\ allRoutes = [c \in Tabs |-> {}]
    /\ selectedRoute = [c \in Tabs |-> NoRoute]
    /\ requestDialogOpen = [c \in Tabs |-> FALSE]
    /\ requestMessage = [c \in Tabs |-> ""]
    /\ requestedSeats = [c \in Tabs |-> 1]
    /\ routeIds = [c \in Tabs |-> {}]
    /\ requests = [c \in Tabs |-> {}]

\* no search was made yet
NotSearched ==
    /\ pickupCoords = [c \in Tabs |-> NoPoint]
    /\ dropoffCoords = [c \in Tabs |-> NoPoint]
    /\ matchingRoutes = [c \in Tabs |-> {}]

PagesInit == TabsInit /\ NotSearched

\* no tab is open
PagesClosed ==
    /\ PagesInit
    /\ session[2] = None


\* ------------------------------------------------- the handlers' steps
\* the handler of tab c goes on to its next await
Step(c, next) == at' = [at EXCEPT ![c] = next]

\* the handler of tab c returns; its local variables are gone with the call
Return(c) ==
    /\ at' = [at EXCEPT ![c] = "idle"]
    /\ user' = [user EXCEPT ![c] = None]
    /\ allRoutes' = [allRoutes EXCEPT ![c] = {}]
    /\ routeIds' = [routeIds EXCEPT ![c] = {}]

\* a handler of the page is started in tab c, where none is running
Start(c, p) == at[c] = "idle" /\ page[c] = p

\* supabase.auth.getUser(): the user signed in in the tab; what follows is
\* skipped if there is none
GetUser(c, step, next) ==
    /\ at[c] = step
    /\ IF session[c] = None
       THEN Return(c)
       ELSE /\ Step(c, next)
            /\ user' = [user EXCEPT ![c] = session[c]]
            /\ UNCHANGED <<allRoutes, routeIds>>
    /\ toast' = NoToast
    /\ UNCHANGED <<webhook, server, tables, session, page, pickupCoords, dropoffCoords,
                   matchingRoutes, dialog, requests>>

\* -------------------------------------------------------------- FindRoutes
\* FindRoutes.tsx 71-82: the rider has picked the two points and clicks Find
\* Routes; without coordinates the handler returns at once
FindStart(c) ==
    /\ Start(c, "find")
    /\ \E trip \in Trips :
        /\ pickupCoords' = [pickupCoords EXCEPT ![c] = trip[1]]
        /\ dropoffCoords' = [dropoffCoords EXCEPT ![c] = trip[2]]
        /\ IF trip[1] = NoPoint \/ trip[2] = NoPoint
           THEN UNCHANGED at /\ toast' = Toast(c, "Please select both pickup and dropoff locations")
           ELSE Step(c, "findUser") /\ toast' = NoToast
    /\ UNCHANGED <<webhook, server, tables, session, page, user, allRoutes, matchingRoutes, dialog,
                   routeIds, requests>>

\* FindRoutes.tsx 82-90
FindGetUser(c) == GetUser(c, "findUser", "findRoutes")

\* FindRoutes.tsx 93-124: fetch the active routes of the other users
FindFetchRoutes(c) ==
    /\ at[c] = "findRoutes"
    /\ \E fetchError \in BOOLEAN :
        IF fetchError
        THEN Return(c) /\ toast' = Toast(c, "Failed to fetch routes. Please try again.")
        ELSE /\ Step(c, "findProfiles")
             /\ allRoutes' = [allRoutes EXCEPT ![c] = FetchRoutes(car_owner_routes, user[c])]
             /\ UNCHANGED <<user, routeIds>>
             /\ toast' = NoToast
    /\ UNCHANGED <<webhook, server, tables, session, page, pickupCoords, dropoffCoords,
                   matchingRoutes, dialog, requests>>

\* FindRoutes.tsx 130-162: fetch the owners' profiles (they are attached to
\* the routes for display), filter, and show the matches
FindFilter(c) ==
    /\ at[c] = "findProfiles"
    /\ matchingRoutes' =
          [matchingRoutes EXCEPT ![c] =
              {r \in allRoutes[c] : WithinDeviation(r, pickupCoords[c], dropoffCoords[c])}]
    /\ Return(c)
    /\ toast' = NoToast
    /\ UNCHANGED <<webhook, server, tables, session, page, pickupCoords, dropoffCoords,
                   dialog, requests>>

\* FindRoutes.tsx 395-398: Send Request on a route of the match result opens
\* the dialog for it
OpenDialog(c) ==
    /\ at[c] = "idle"
    /\ \E route \in matchingRoutes[c] :
        /\ selectedRoute[c] # route \/ ~requestDialogOpen[c]
        /\ selectedRoute' = [selectedRoute EXCEPT ![c] = route]
    /\ requestDialogOpen' = [requestDialogOpen EXCEPT ![c] = TRUE]
    /\ toast' = NoToast
    /\ UNCHANGED <<webhook, server, tables, session, page, at, user, search, requestMessage,
                   requestedSeats, routeIds, requests>>

\* FindRoutes.tsx 413 and 469: the dialog is closed
CloseDialog(c) ==
    /\ at[c] = "idle"
    /\ requestDialogOpen[c]
    /\ requestDialogOpen' = [requestDialogOpen EXCEPT ![c] = FALSE]
    /\ toast' = NoToast
    /\ UNCHANGED <<webhook, server, tables, session, page, at, user, search, selectedRoute,
                   requestMessage, requestedSeats, routeIds, requests>>

\* FindRoutes.tsx 423-431: the seat count is typed; min and max of the
\* input do not limit what is typed
EditSeats(c) ==
    /\ at[c] = "idle"
    /\ requestDialogOpen[c]
    /\ \E text \in SeatTexts :
        /\ OrOne(parseInt(text)) # requestedSeats[c]
        /\ requestedSeats' = [requestedSeats EXCEPT ![c] = OrOne(parseInt(text))]
    /\ toast' = NoToast
    /\ UNCHANGED <<webhook, server, tables, session, page, at, user, search, selectedRoute,
                   requestDialogOpen, requestMessage, routeIds, requests>>

\* FindRoutes.tsx 442: the message is typed
EditMessage(c) ==
    /\ at[c] = "idle"
    /\ requestDialogOpen[c]
    /\ \E m \in Messages :
        /\ m # requestMessage[c]
        /\ requestMessage' = [requestMessage EXCEPT ![c] = m]
    /\ toast' = NoToast
    /\ UNCHANGED <<webhook, server, tables, session, page, at, user, search, selectedRoute,
                   requestDialogOpen, requestedSeats, routeIds, requests>>

SendSteps == {"sendUser", "sendCheck", "sendInsert"}

\* (mutant) the seat count is not compared
SeatsNotCompared(seats, route) == FALSE

\* FindRoutes.tsx 187
SeatsExceeded(seats, route) == seats > route.seats_available

\* FindRoutes.tsx 184-197: Send in the dialog; nothing happens without a
\* selected route or with more seats than the route has
SendStart(c) ==
    /\ Start(c, "find")
    /\ requestDialogOpen[c]
    /\ Cardinality(route_requests) + Cardinality({b \in Tabs : at[b] \in SendSteps}) < MaxRows
    /\ IF selectedRoute[c] = NoRoute
       THEN UNCHANGED at /\ toast' = NoToast
       ELSE IF SeatsExceeded(requestedSeats[c], selectedRoute[c])
       THEN UNCHANGED at /\ toast' = Toast(c, "Only N seat(s) available")
       ELSE Step(c, "sendUser") /\ toast' = NoToast
    /\ UNCHANGED <<webhook, server, tables, session, page, user, search, dialog, routeIds, requests>>

\* FindRoutes.tsx 197-205
SendGetUser(c) == GetUser(c, "sendUser", "sendCheck")

\* FindRoutes.tsx 207-222: has the rider a request for this route; .single()
\* gives the row only if there is exactly one
SendCheck(c) ==
    /\ at[c] = "sendCheck"
    /\ \E error \in BOOLEAN :
        LET existingRequest ==
                ~error /\ Cardinality(RequestsOf(route_requests, user[c], selectedRoute[c].id)) = 1
        IN IF existingRequest
           THEN Return(c)
           ELSE Step(c, "sendInsert") /\ UNCHANGED <<user, allRoutes, routeIds>>
    /\ toast' = NoToast
    /\ UNCHANGED <<webhook, server, tables, session, page, pickupCoords, dropoffCoords,
                   matchingRoutes, dialog, requests>>

\* FindRoutes.tsx 224-253: insert the request; on success the dialog is
\* closed and reset
SendInsert(c) ==
    /\ at[c] = "sendInsert"
    /\ \E insertError \in BOOLEAN :
        IF insertError
        THEN UNCHANGED <<route_requests, nextRequestId, dialog>>
        ELSE /\ route_requests' = route_requests \cup
                    {RequestRow(nextRequestId, user[c], selectedRoute[c].id, "pending",
                                IF requestMessage[c] # "" THEN requestMessage[c] ELSE None,
                                requestedSeats[c])}
             /\ nextRequestId' = nextRequestId + 1
             /\ requestDialogOpen' = [requestDialogOpen EXCEPT ![c] = FALSE]
             /\ requestMessage' = [requestMessage EXCEPT ![c] = ""]
             /\ requestedSeats' = [requestedSeats EXCEPT ![c] = 1]
             /\ selectedRoute' = [selectedRoute EXCEPT ![c] = NoRoute]
    /\ Return(c)
    /\ toast' = NoToast
    /\ UNCHANGED <<webhook, server, car_owner_routes, session, page, pickupCoords, dropoffCoords,
                   matchingRoutes, requests>>

\* ------------------------------------------------------------ JoinRequests
\* (mutant) the requests of every route are loaded
RequestsOfAnyRoute(tbl, ids) == tbl

\* part_000 68-80: .from('route_requests').select(...).in('route_id', ids)
RequestsOfRoutes(tbl, ids) == {q \in tbl : q.route_id \in ids}

\* part_000 42-50: the page is opened and loads its requests
LoadStart(c) ==
    /\ Start(c, "requests")
    /\ Step(c, "loadUser")
    /\ toast' = NoToast
    /\ UNCHANGED <<webhook, server, tables, session, page, user, search, dialog, routeIds, requests>>

\* part_000 50-51
LoadGetUser(c) == GetUser(c, "loadUser", "loadRoutes")

\* part_000 54-65: the ids of the routes the user owns; without any (or
\* without an answer) there is nothing to show
LoadRoutes(c) ==
    /\ at[c] = "loadRoutes"
    /\ \E error \in BOOLEAN :
        LET myRoutes == IF error THEN {}
                        ELSE {r.id : r \in {x \in car_owner_routes : x.car_owner_id = user[c]}}
        IN IF myRoutes = {}
           THEN requests' = [requests EXCEPT ![c] = {}] /\ Return(c)
           ELSE /\ Step(c, "loadRequests")
                /\ routeIds' = [routeIds EXCEPT ![c] = myRoutes]
                /\ UNCHANGED <<user, allRoutes, requests>>
    /\ toast' = NoToast
    /\ UNCHANGED <<webhook, server, tables, session, page, pickupCoords, dropoffCoords,
                   matchingRoutes, dialog>>

\* part_000 68-147: the requests for these routes; the two fetches that
\* follow (103-112) add the route and the requester to each for display
LoadRequests(c) ==
    /\ at[c] = "loadRequests"
    /\ \E error \in BOOLEAN :
        requests' = IF error THEN requests
                    ELSE [requests EXCEPT ![c] = RequestsOfRoutes(route_requests, routeIds[c])]
    /\ Return(c)
    /\ toast' = NoToast
    /\ UNCHANGED <<webhook, server, tables, session, page, pickupCoords, dropoffCoords,
                   matchingRoutes, dialog>>

\* part_000 155-186, 275, 284: Accept or Reject on a pending request of the
\* list (the list is not shown while it loads); after the update the list is
\* loaded again
UpdateRequest(c) ==
    /\ Start(c, "requests")
    /\ \E request \in requests[c], newStatus \in {"accepted", "rejected"}, error \in BOOLEAN :
        /\ request.status = "pending"
        /\ IF error
           THEN UNCHANGED <<route_requests, at>>
           ELSE /\ route_requests' =
                      {IF q.id = request.id THEN [q EXCEPT !.status = newStatus] ELSE q :
                          q \in route_requests}
                /\ Step(c, "loadUser")
    /\ toast' = NoToast
    /\ UNCHANGED <<webhook, server, car_owner_routes, nextRequestId, session, page, user, search,
                   dialog, routeIds, requests>>

\* the find pages show the result of a search u1 made from the trip whose
\* ends are those of route r1
Searched ==
    /\ pickupCoords = [c \in Tabs |-> IF page[c] = "find" THEN Point(0) ELSE NoPoint]
    /\ dropoffCoords = [c \in Tabs |-> IF page[c] = "find" THEN Point(20000) ELSE NoPoint]
    /\ matchingRoutes =
          [c \in Tabs |->
              IF page[c] = "find"
              THEN {r \in FetchRoutes(car_owner_routes, "u1") :
                       WithinDeviation(r, Point(0), Point(20000))}
              ELSE {}]

SearchNext ==
    \/ \E c \in Tabs : FindStart(c)
    \/ \E c \in Tabs : FindGetUser(c)
    \/ \E c \in Tabs : FindFetchRoutes(c)
    \/ \E c \in Tabs : FindFilter(c)

RequestsNext ==
    \/ \E c \in Tabs : OpenDialog(c)
    \/ \E c \in Tabs : CloseDialog(c)
    \/ \E c \in Tabs : EditSeats(c)
    \/ \E c \in Tabs : EditMessage(c)
    \/ \E c \in Tabs : SendStart(c)
    \/ \E c \in Tabs : SendGetUser(c)
    \/ \E c \in Tabs : SendCheck(c)
    \/ \E c \in Tabs : SendInsert(c)
    \/ \E c \in Tabs : LoadStart(c)
    \/ \E c \in Tabs : LoadGetUser(c)
    \/ \E c \in Tabs : LoadRoutes(c)
    \/ \E c \in Tabs : LoadRequests(c)
    \/ \E c \in Tabs : UpdateRequest(c)

\* -------------------------------------------------------------- CreatePool
\* what the register form holds when Register Route is clicked: are the text
\* fields filled, the points picked on the map, is a day ticked
CreateForms ==
    [filled : BOOLEAN, trip : {<<Point(0), Point(20000)>>, <<NoPoint, Point(20000)>>},
     days : BOOLEAN]

\* the texts of the form's seats field that start with a number
SeatsAvailableTexts == {<<"1">>, <<"2">>, <<"1", "x">>}

\* a <= b of two Dates
DateLE(a, b) == a.day < b.day \/ (a.day = b.day /\ a.ms <= b.ms)

\* (mutant) the end date of the subscription is not looked at
ActiveRowOnly(row, now) == TRUE

\* CreatePool.tsx 96: new Date(subscription.end_date) <= new Date() is false
NotEnded(row, now) == ~DateLE(row.end_date, now)

\* CreatePool.tsx 89-94: .eq('user_id', u).eq('status', 'active')
ActiveRowsOf(tbl, u) == {r \in RowsOf(tbl, u) : r.status = "active"}

\* CreatePool.tsx 50-77: Register Route is clicked; the form is validated
\* before anything is asked of the store
CreateStart(c) ==
    /\ Start(c, "create")
    /\ \E form \in CreateForms :
        /\ pickupCoords' = [pickupCoords EXCEPT ![c] = form.trip[1]]
        /\ dropoffCoords' = [dropoffCoords EXCEPT ![c] = form.trip[2]]
        /\ IF ~form.filled
           THEN UNCHANGED at /\ toast' = Toast(c, "Please fill in all required fields")
           ELSE IF form.trip[1] = NoPoint \/ form.trip[2] = NoPoint
           THEN /\ UNCHANGED at
                /\ toast' = Toast(c, "Please select locations on the map to get coordinates")
           ELSE IF ~form.days
           THEN UNCHANGED at /\ toast' = Toast(c, "Please select at least one active day")
           ELSE Step(c, "createUser") /\ toast' = NoToast
    /\ UNCHANGED <<webhook, server, tables, session, page, user, allRoutes, matchingRoutes, dialog,
                   routeIds, requests>>

\* CreatePool.tsx 79-88
CreateGetUser(c) == GetUser(c, "createUser", "createSub")

\* CreatePool.tsx 90-107: the user's active subscription; .single() gives a
\* row only if exactly one matches. Without one that has not ended the user
\* is told so and, two seconds later, sent to the subscription page.
CreateCheck(c) ==
    /\ at[c] = "createSub"
    /\ \E subError \in BOOLEAN, t \in 0 .. MaxTick :
        LET rows == ActiveRowsOf(subscriptions, user[c])
            found == ~subError /\ Cardinality(rows) = 1
        IN /\ IF found THEN ReadClock(t) ELSE t = tick /\ UNCHANGED tick
           /\ IF found /\ \A r \in rows : NotEnded(r, ClockAt(t))
              THEN Step(c, "createInsert") /\ toast' = NoToast
              ELSE Step(c, "toSubscription") /\ toast' = Toast(c, "Subscription Required")
    /\ UNCHANGED <<webhookSecret, store, nreq, pc, ev, locals, failed, period, out, server, tables,
                   session, page, user, search, dialog, routeIds, requests>>

\* CreatePool.tsx 109-166: the route is inserted; on success the form is
\* emptied and, a second and a half later, the user is sent to My Pools
CreateInsert(c) ==
    /\ at[c] = "createInsert"
    /\ \E insertError \in BOOLEAN, text \in SeatsAvailableTexts :
        IF insertError
        THEN /\ Step(c, "idle")
             /\ toast' = Toast(c, "Failed to create route")
             /\ UNCHANGED <<car_owner_routes, pickupCoords, dropoffCoords>>
        ELSE /\ car_owner_routes' = car_owner_routes \cup
                    {Route(Cardinality(car_owner_routes) + 1, user[c], TRUE,
                           pickupCoords[c], dropoffCoords[c], parseInt(text).value)}
             /\ pickupCoords' = [pickupCoords EXCEPT ![c] = NoPoint]
             /\ dropoffCoords' = [dropoffCoords EXCEPT ![c] = NoPoint]
             /\ Step(c, "toMyPools")
             /\ toast' = NoToast
    /\ user' = [user EXCEPT ![c] = None]
    /\ UNCHANGED <<webhook, server, route_requests, nextRequestId, session, page, allRoutes,
                   matchingRoutes, dialog, routeIds, requests>>

\* CreatePool.tsx 103-105, 164-166: router.push when the timer runs out
CreateRedirect(c) ==
    /\ at[c] \in {"toSubscription", "toMyPools"}
    /\ page' = [page EXCEPT ![c] = IF at[c] = "toSubscription" THEN "subscription"
                                   ELSE "my-pools"]
    /\ Step(c, "idle")
    /\ user' = [user EXCEPT ![c] = None]
    /\ toast' = NoToast
    /\ UNCHANGED <<webhook, server, tables, session, search, dialog, routeIds, requests>>

CreateNext ==
    \/ \E c \in Tabs : CreateStart(c)
    \/ \E c \in Tabs : CreateGetUser(c)
    \/ \E c \in Tabs : CreateCheck(c)
    \/ \E c \in Tabs : CreateInsert(c)
    \/ \E c \in Tabs : CreateRedirect(c)

\* ----------------------------------------------------------- the middleware
\* A pathname is the sequence of its pieces, cut where the prefixes the
\* middleware tests for end: "/auth/signin" is <<"/auth", "/signin">> and
\* "/statistics" is <<"/static", "istics">>.
StartsWith(path, prefix) ==
    /\ Len(prefix) <= Len(path)
    /\ SubSeq(path, 1, Len(prefix)) = prefix

\* middleware.ts 6-13
PUBLIC_PATHS ==
    {<<"/">>, <<"/auth", "/signin">>, <<"/auth", "/signup">>,
     <<"/auth", "/forgot-password">>, <<"/auth", "/reset-password">>,
     <<"/auth", "/callback">>}

\* the pathnames of the requests
Paths ==
    PUBLIC_PATHS \cup
    {<<"/dashboard">>, <<"/api/stripe/webhook">>,
     <<"/_next", "/static", "/chunks/main.js">>, <<"/_next", "/data/index.json">>,
     <<"/static", "/logo.png">>, <<"/static", "istics">>, <<"/favicon.ico">>}

NoPath == <<>>

\* middleware.ts 15-18
isPublicPath(p) ==
    IF p \in PUBLIC_PATHS THEN TRUE
    ELSE \/ StartsWith(p, <<"/_next">>)
         \/ StartsWith(p, <<"/static">>)
         \/ p = <<"/favicon.ico">>

\* middleware.ts 59-61: the middleware runs on the pathnames that, after the
\* first "/", do not go on with _next/static, _next/image or favicon.ico
matcher(p) ==
    ~ \/ StartsWith(p, <<"/_next", "/static">>)
      \/ StartsWith(p, <<"/_next", "/image">>)
      \/ StartsWith(p, <<"/favicon.ico">>)

\* the answers: "skipped" = the middleware did not run and the request went
\* on to its route, "next" = NextResponse.next(), "redirect" =
\* NextResponse.redirect(location?redirectedFrom=...)
Response_(h, p, c, kind, location, from) ==
    [handler |-> h, pathname |-> p, cookie |-> c, kind |-> kind,
     location |-> location, redirectedFrom |-> from]

NoAnswer == Response_(0, NoPath, FALSE, None, NoPath, NoPath)

\* middleware.ts 20-25: a request arrives; a public path is passed on at once
MwReceive(h) ==
    /\ mwAt[h] = "idle"
    /\ \E p \in Paths, c \in BOOLEAN :
        IF ~matcher(p)
        THEN /\ answered' = Response_(h, p, c, "skipped", NoPath, NoPath)
             /\ UNCHANGED <<mwAt, pathname, cookie>>
        ELSE IF isPublicPath(p)
        THEN /\ answered' = Response_(h, p, c, "next", NoPath, NoPath)
             /\ UNCHANGED <<mwAt, pathname, cookie>>
        ELSE /\ mwAt' = [mwAt EXCEPT ![h] = "getSession"]
             /\ pathname' = [pathname EXCEPT ![h] = p]
             /\ cookie' = [cookie EXCEPT ![h] = c]
             /\ answered' = NoAnswer
    /\ UNCHANGED <<webhook, pages, checkout>>

\* middleware.ts 27-57: the session is read from the cookies
MwSession(h) ==
    /\ mwAt[h] = "getSession"
    /\ LET p == pathname[h]
           session_ == cookie[h]
       IN answered' =
            IF session_ /\ p \in PUBLIC_PATHS /\ StartsWith(p, <<"/auth">>)
            THEN Response_(h, p, cookie[h], "redirect", <<"/dashboard">>, NoPath)
            ELSE IF ~session_
            THEN Response_(h, p, cookie[h], "redirect", <<"/auth", "/signin">>, p)
            ELSE Response_(h, p, cookie[h], "next", NoPath, NoPath)
    /\ mwAt' = [mwAt EXCEPT ![h] = "idle"]
    /\ pathname' = [pathname EXCEPT ![h] = NoPath]
    /\ cookie' = [cookie EXCEPT ![h] = FALSE]
    /\ UNCHANGED <<webhook, pages, checkout>>

GateInit ==
    /\ mwAt = [h \in Handlers |-> "idle"]
    /\ pathname = [h \in Handlers |-> NoPath]
    /\ cookie = [h \in Handlers |-> FALSE]
    /\ answered = NoAnswer

GateNext == \E h \in Handlers : MwReceive(h) \/ MwSession(h)

\* ------------------------------------------ the create-checkout-session route
\* the bodies of the requests: not JSON at all, or an object that has or
\* lacks planType and planPrice
Prices == {2700, 10000}

NoPrice == -1     \* the body has no planPrice

Malformed == [json |-> FALSE, planType |-> None, planPrice |-> NoPrice]

Bodies ==
    {Malformed} \cup
    [json : {TRUE},
     planType : {None, "", "monthly", "quarterly", "yearly", "weekly"},
     planPrice : {NoPrice, 0} \cup Prices]

NoBody == [json |-> FALSE, planType |-> "-", planPrice |-> NoPrice]

\* JavaScript's !planType and !planPrice for the values the fields take here
NoType(planType) == planType = None \/ planType = ""

NoAmount(planPrice) == planPrice = NoPrice \/ planPrice = 0

\* (mutant) one plan type more is let through
validPlansAndWeekly == {"monthly", "quarterly", "yearly", "weekly"}

\* part_001 111
validPlans == {"monthly", "quarterly", "yearly"}

\* Math.round(n / d) for positive n and d
Round(n, d) == (2 * n + d) \div (2 * d)

\* planPrice.toString()
toString(n) == IF n = 2700 THEN "2700" ELSE IF n = 10000 THEN "10000" ELSE "0"

\* part_001 130-134
Recurring(planType) ==
    IF planType = "monthly" THEN [interval |-> "month", interval_count |-> 1]
    ELSE IF planType = "quarterly" THEN [interval |-> "month", interval_count |-> 3]
    ELSE [interval |-> "year", interval_count |-> 1]

\* part_001 122-149: the session asked of the processor
CheckoutSession(id, u, planType, planPrice) ==
    [id |-> id, mode |-> "subscription", client_reference_id |-> u,
     unit_amount |-> Round(planPrice * 100, 280),
     recurring |-> Recurring(planType),
     metadata |-> [userId |-> u, planType |-> planType, planPrice |-> toString(planPrice)],
     subscription_data |-> None]

\* the processor, when the checkout of session n completes: the event it
\* sends for the session
CompletedEvent(n) ==
    [NoEvent EXCEPT !.type = "checkout.session.completed", !.mode = n.mode,
                    !.client_reference_id = n.client_reference_id,
                    !.metadata_userId = n.metadata.userId,
                    !.planType = n.metadata.planType,
                    !.planPrice = n.metadata.planPrice]

\* the processor, when the checkout of session n completes: the
\* subscription it creates. Its metadata is what the session passed as
\* subscription_data.metadata; the metadata of the session itself stays on
\* the session.
SubscriptionOf(n) ==
    [id |-> "sub_n",
     metadata_userId |-> IF n.subscription_data = None THEN None
                         ELSE n.subscription_data.metadata.userId,
     current_period_start |-> PeriodStart(1),
     current_period_end |-> PeriodEnd(1),
     interval |-> n.recurring.interval,
     unit_amount |-> n.unit_amount]

\* the event of the given type the processor sends for subscription sub
SubscriptionEvent(type, sub, status) ==
    [NoEvent EXCEPT !.type = type, !.subscription = sub.id,
                    !.metadata_userId =
                        IF type \in {"customer.subscription.updated",
                                     "customer.subscription.deleted"}
                        THEN sub.metadata_userId ELSE None,
                    !.status = status]

Reply(status, u, b, created) ==
    [status |-> status, caller |-> u, body |-> b, sessionId |-> created]

NoReply == Reply(0, None, NoBody, 0)

CoAnswer(status, created) ==
    /\ reply' = Reply(status, caller, body, created)
    /\ coAt' = "idle"
    /\ caller' = None
    /\ body' = NoBody

\* part_001 86-91: a request arrives
CoReceive ==
    /\ coAt = "idle"
    /\ Cardinality(checkoutSessions) < MaxSessions
    /\ \E u \in {None, "u1"}, b \in Bodies :
        /\ caller' = u
        /\ body' = b
    /\ coAt' = "getUser"
    /\ reply' = NoReply
    /\ UNCHANGED <<webhook, pages, gate, checkoutSessions>>

\* part_001 89-98: supabase.auth.getUser()
CoGetUser ==
    /\ coAt = "getUser"
    /\ IF caller = None
       THEN CoAnswer(401, 0)
       ELSE coAt' = "json" /\ reply' = NoReply /\ UNCHANGED <<caller, body>>
    /\ UNCHANGED <<webhook, pages, gate, checkoutSessions>>

\* part_001 100-118, 152-159: request.json() and the checks of the fields
CoJson ==
    /\ coAt = "json"
    /\ IF ~body.json
       THEN CoAnswer(500, 0)
       ELSE IF NoType(body.planType) \/ NoAmount(body.planPrice)
       THEN CoAnswer(400, 0)
       ELSE IF body.planType \notin validPlans
       THEN CoAnswer(400, 0)
       ELSE coAt' = "create" /\ reply' = NoReply /\ UNCHANGED <<caller, body>>
    /\ UNCHANGED <<webhook, pages, gate, checkoutSessions>>

\* part_001 120-159: stripe.checkout.sessions.create
CoCreate ==
    /\ coAt = "create"
    /\ \E error \in BOOLEAN :
        IF error
        THEN CoAnswer(500, 0) /\ UNCHANGED checkoutSessions
        ELSE LET id == Cardinality(checkoutSessions) + 1
             IN /\ checkoutSessions' = checkoutSessions \cup
                       {CheckoutSession(id, caller, body.planType, body.planPrice)}
                /\ CoAnswer(200, id)
    /\ UNCHANGED <<webhook, pages, gate>>

CheckoutInit ==
    /\ coAt = "idle"
    /\ caller = None
    /\ body = NoBody
    /\ checkoutSessions = {}
    /\ reply = NoReply

CheckoutNext == CoReceive \/ CoGetUser \/ CoJson \/ CoCreate

ServerInit == GateInit /\ CheckoutInit

\* --------------------------------------- the manual subscription endpoint
\* part_001 13-79: POST of the test route. The request bodies: not JSON, or
\* an object with userId, planType and planPrice, each present or not.
TestBodies ==
    [json : {TRUE}, userId : {None, "u1", "u2"}, planType : {None, "monthly", "weekly"},
     planPrice : {NoPrice, 2700}, startDate : {NoDate}, endDate : {NoDate}]
    \cup {[json |-> FALSE, userId |-> None, planType |-> None, planPrice |-> NoPrice,
            startDate |-> NoDate, endDate |-> NoDate]}

\* part_001 14: a request arrives, from a signed-in user or from no one; the
\* handler reads neither a session nor a signature
TestReceive ==
    /\ coAt = "idle"
    /\ \E u \in {None, "u1"}, b \in TestBodies :
        /\ caller' = u
        /\ body' = b
    /\ coAt' = "testJson"
    /\ reply' = NoReply
    /\ UNCHANGED <<webhook, pages, gate, checkoutSessions>>

\* part_001 16-38: request.json(), the check of the three fields, and the
\* dates of the row
TestJson ==
    /\ coAt = "testJson"
    /\ \E t \in 0 .. MaxTick :
        LET written == body.json /\ body.userId # None /\ ~NoType(body.planType)
                       /\ ~NoAmount(body.planPrice)
        IN /\ IF written THEN ReadClock(t) ELSE t = tick /\ UNCHANGED tick
           /\ IF ~body.json
              THEN CoAnswer(500, 0)
              ELSE IF ~written
              THEN CoAnswer(400, 0)
              ELSE /\ coAt' = "testUpsert"
                   /\ body' = [body EXCEPT !.startDate = ClockAt(t),
                                           !.endDate = PlanEndDate(ClockAt(t), body.planType)]
                   /\ reply' = NoReply
                   /\ UNCHANGED caller
    /\ UNCHANGED <<webhookSecret, store, nreq, pc, ev, locals, failed, period, out, pages, gate,
                   checkoutSessions>>

\* part_001 40-60: the upsert of the active row; an error is answered 500
TestUpsert ==
    /\ coAt = "testUpsert"
    /\ \E error \in BOOLEAN :
        IF error
        THEN CoAnswer(500, 0) /\ UNCHANGED <<subscriptions, nextId>>
        ELSE /\ subscriptions' =
                    Upsert(subscriptions,
                           SubRow(nextId, body.userId, body.planType, "active", body.startDate,
                                  body.endDate, parseFloat(toString(body.planPrice))))
             /\ nextId' = IF RowsOf(subscriptions, body.userId) = {} THEN nextId + 1 ELSE nextId
             /\ coAt' = "testProfile"
             /\ reply' = NoReply
             /\ UNCHANGED <<caller, body>>
    /\ UNCHANGED <<webhookSecret, profiles, tick, nreq, pc, ev, locals, failed, period, out, pages,
                   gate, checkoutSessions>>

\* part_001 62-71: the profile is set to car_owner; the result is not looked
\* at
TestProfile ==
    /\ coAt = "testProfile"
    /\ \E error \in BOOLEAN :
        profiles' = IF error THEN profiles
                    ELSE [profiles EXCEPT ![body.userId] =
                             IF @ = None THEN None ELSE "car_owner"]
    /\ CoAnswer(200, 0)
    /\ UNCHANGED <<webhookSecret, subscriptions, nextId, tick, nreq, pc, ev, locals, failed,
                   period, out, pages, gate, checkoutSessions>>

TestNext == TestReceive \/ TestJson \/ TestUpsert \/ TestProfile

\* ------------------------------------------------------- specifications
\* the webhook, while no tab is open
\* the webhook, before any route is offered
Init ==
    /\ WebhookInit
    /\ car_owner_routes = {}
    /\ PagesClosed
    /\ ServerInit

Spec == Init /\ [][Next]_vars

\* the search of the find page, while no delivery arrives at the webhook
SearchInit ==
    /\ WebhookInit
    /\ webhookSecret
    /\ car_owner_routes = OfferedRoutes
    /\ PagesInit
    /\ ServerInit

SearchSpec == SearchInit /\ [][SearchNext]_vars

\* the request dialog of the find page, after a search, and the requests page
RequestsInit ==
    /\ WebhookInit
    /\ webhookSecret
    /\ car_owner_routes = OfferedRoutes
    /\ TabsInit
    /\ Searched
    /\ ServerInit

RequestsSpec == RequestsInit /\ [][RequestsNext]_vars

\* the middleware and the create-checkout-session route, while the webhook
\* and the pages are at rest
ServerSpecInit ==
    /\ WebhookInit
    /\ webhookSecret
    /\ car_owner_routes = {}
    /\ PagesClosed
    /\ ServerInit

GateSpec == ServerSpecInit /\ [][GateNext]_vars

CheckoutSpec == ServerSpecInit /\ [][CheckoutNext]_vars

\* a row of u1 that is active and runs until the instant of tick 1
RunningRow ==
    SubRow(1, "u1", "monthly", "active", [day |-> 0, ms |-> 0], ClockAt(1), 100000)

\* the register page in both tabs, for u1 and for u1, u2 or no one; no route
\* is offered yet, and u1 has no subscription, a lapsed one or a running one
CreateInit ==
    /\ webhookSecret = TRUE
    /\ subscriptions \in {{}, {LapsedRow}, {RunningRow}}
    /\ profiles = [u \in Users |-> "common_user"]
    /\ nextId = 2
    /\ tick = 0
    /\ nreq = 0
    /\ pc = [h \in Handlers |-> "idle"]
    /\ ev = [h \in Handlers |-> NoEvent]
    /\ userId = [h \in Handlers |-> None]
    /\ startDate = [h \in Handlers |-> NoDate]
    /\ endDate = [h \in Handlers |-> NoDate]
    /\ fullSubscription = [h \in Handlers |-> NoSubscription]
    /\ failed = [h \in Handlers |-> {}]
    /\ period = 1
    /\ out = NoOut
    /\ toast = NoToast
    /\ car_owner_routes = {}
    /\ route_requests = {}
    /\ nextRequestId = 1
    /\ session \in {[c \in Tabs |-> IF c = 1 THEN "u1" ELSE u] : u \in {"u1", "u2", None}}
    /\ page = [c \in Tabs |-> "create"]
    /\ at = [c \in Tabs |-> "idle"]
    /\ user = [c \in Tabs |-> None]
    /\ allRoutes = [c \in Tabs |-> {}]
    /\ selectedRoute = [c \in Tabs |-> NoRoute]
    /\ requestDialogOpen = [c \in Tabs |-> FALSE]
    /\ requestMessage = [c \in Tabs |-> ""]
    /\ requestedSeats = [c \in Tabs |-> 1]
    /\ routeIds = [c \in Tabs |-> {}]
    /\ requests = [c \in Tabs |-> {}]
    /\ NotSearched
    /\ ServerInit

CreateSpec == CreateInit /\ [][CreateNext]_vars

\* the manual subscription endpoint, while no delivery arrives at the webhook
TestSpec == ServerSpecInit /\ [][TestNext]_vars

\* ------------------------------------------------------------- properties
\* the handler h takes the delivery that arrives in this step
Delivered(h) == FirstFree(h) /\ nreq' = nreq + 1

CheckoutTypes == {"checkout.session.completed"}
SubscriptionTypes == {"customer.subscription.updated", "customer.subscription.deleted"}

\* the subscription write of a checkout handling succeeds in this step
CheckoutWritten(h) == pc[h] \in {"ckSubInsert", "ckSubUpdate"} /\ pc'[h] = "ckProfileUpdate"

Ids(rows) == {r.id : r \in rows}

\* C1, as claimed: a delivery whose signature header is missing or does not
\* verify is answered 400, and the subscriptions and profiles tables are the
\* same before and after it, whatever the payload.
C1_UnsignedIs400 ==
    [][\A h \in Handlers :
         Delivered(h) /\ out'.handler = h /\ out'.signature # "verified" =>
            /\ out'.status = 400
            /\ subscriptions' = subscriptions
            /\ profiles' = profiles]_vars

\* C1, amended: such a delivery is answered 400 when the webhook secret is
\* configured and 500 when it is not, and in both cases the subscriptions and
\* profiles tables are the same before and after it.
C1_UnsignedRejected ==
    [][\A h \in Handlers :
         Delivered(h) /\ out'.handler = h /\ out'.signature # "verified" =>
            /\ out'.status = (IF webhookSecret THEN 400 ELSE 500)
            /\ out'.eventType = None
            /\ pc'[h] = "idle"
            /\ subscriptions' = subscriptions
            /\ profiles' = profiles]_vars

\* a forged delivery has been answered 400 while there are rows to protect
C1_Witness ==
    /\ out.signature = "forged" /\ out.status = 400
    /\ \E r \in subscriptions : r.status = "active"
    /\ \E u \in Users : profiles[u] = "car_owner"

\* C2: when the subscription write of a checkout-completed handling succeeds,
\* the user has exactly one row afterwards and it is active; if the user had
\* no row it is a new row added to the table, and if the user had a row it is
\* that row (same id) and the table has no more rows than before.
C2_InsertOrUpdateInPlace ==
    [][\A h \in Handlers :
         CheckoutWritten(h) =>
            LET u == SessionUserId(ev[h])
                before == RowsOf(subscriptions, u)
                after == RowsOf(subscriptions', u) IN
            /\ Cardinality(after) = 1
            /\ \A r \in after : r.status = "active"
            /\ before = {} =>
                 /\ Cardinality(subscriptions') = Cardinality(subscriptions) + 1
                 /\ subscriptions \subseteq subscriptions'
                 /\ Ids(after) \cap Ids(subscriptions) = {}
            /\ before # {} =>
                 /\ Cardinality(subscriptions') = Cardinality(subscriptions)
                 /\ Ids(after) = Ids(before)
                 /\ subscriptions \ before = subscriptions' \ after]_vars

\* a checkout of u1 has updated the lapsed row of u1 in place, and a checkout
\* of u2, who had no row, has just inserted one
C2_Witness ==
    \E h \in Handlers :
        /\ ev[h].type \in CheckoutTypes /\ pc[h] = "ckProfileUpdate" /\ userId[h] = "u2"
        /\ \E r \in subscriptions :
              /\ r.id = LapsedRow.id /\ r.user_id = "u1"
              /\ r.plan_type = "yearly" /\ r.status = "active"
        /\ \E r \in subscriptions :
              /\ r.id = nextId - 1 /\ r.user_id = "u2"
              /\ r.plan_type = "quarterly" /\ r.status = "active"
        /\ Cardinality(subscriptions) = 2

\* C3: in every reachable state the subscriptions table holds at most one
\* row per user id.
C3_OneRowPerUser ==
    \A u \in Users : Cardinality(RowsOf(subscriptions, u)) <= 1

\* two checkout handlings of one user both found no row; one has inserted
\* and the other is about to
C3_Witness ==
    \E h, g \in Handlers :
        /\ h # g
        /\ userId[h] = userId[g]
        /\ pc[h] = "ckProfileUpdate" /\ pc[g] = "ckSubInsert"
        /\ \E r \in subscriptions :
              r.user_id = userId[h] /\ r.start_date = startDate[h] /\ r.id = nextId - 1

\* the rows of the table with their status left out
Unstatused(tbl) ==
    {[id |-> r.id, user_id |-> r.user_id, plan_type |-> r.plan_type,
      start_date |-> r.start_date, end_date |-> r.end_date, price |-> r.price] : r \in tbl}

\* the instant a number of seconds after the epoch, as a Date
DateOfSeconds(sec) == [day |-> sec \div SecPerCycle, ms |-> (sec % SecPerCycle) * 1000]

\* an instant the clock has shown so far
ClockShown(d) == \E t \in 0 .. tick : d = ClockAt(t)

\* the response just sent answers a checkout-completed event of subscription
\* mode that names a user
CheckoutAnswered ==
    /\ out.event.type \in CheckoutTypes
    /\ out.event.mode = "subscription"
    /\ SessionUserId(out.event) # None

\* C4, as claimed: whenever a checkout-completed event (subscription mode,
\* user id present) is acknowledged with success, the user has an active
\* subscription row and the user's profile is car_owner.
C4_AckMeansCarOwner ==
    CheckoutAnswered /\ out.status = 200 =>
        /\ \E r \in RowsOf(subscriptions, SessionUserId(out.event)) : r.status = "active"
        /\ profiles[SessionUserId(out.event)] = "car_owner"

\* C5, as claimed: every subscription row has a plan type among monthly,
\* quarterly, yearly and a status among active, expired.
C5_RowDomains ==
    \A r \in subscriptions :
        /\ r.plan_type \in {"monthly", "quarterly", "yearly"}
        /\ r.status \in {"active", "expired"}

\* C6, as claimed: a checkout-completed handling in which a store write
\* failed (profile creation, subscription insert/update, profile update) is
\* answered with a server error.
C6_WriteErrorIs5xx ==
    CheckoutAnswered /\ out.failed # {} => out.status >= 500

\* C7: in the subscription and invoice branches a store write that returns
\* an error leaves the subscriptions table as it was, and the handler still
\* answers the success acknowledgement with the event type.
C7_WriteErrorSwallowed ==
    [][\A h \in Handlers :
         pc[h] \in {"subUpsert", "paidUpsert", "subExpire", "unpaidExpire"}
         /\ pc'[h] # pc[h] /\ out'.failed # {} =>
            /\ subscriptions' = subscriptions
            /\ pc'[h] = "idle"
            /\ out'.handler = h
            /\ out'.status = 200
            /\ out'.eventType = ev[h].type]_vars

\* the expiring write of a payment_failed handling failed, the user's row is
\* still active, and the event was acknowledged
C7_Witness ==
    /\ out.event.type = "invoice.payment_failed"
    /\ out.failed = {"expire"} /\ out.status = 200
    /\ \E r \in RowsOf(subscriptions, SubMetaUser(out.event.subscription)) :
          r.status = "active"

\* the write of a handling succeeds in this step and the handler answers
Written(h, step) == pc[h] = step /\ out'.handler = h /\ out'.failed = {}

\* row r is active and its bounds are exactly the period bounds of the
\* processor subscription sub
ActiveWithPeriodOf(r, sub) ==
    /\ r.status = "active"
    /\ r.start_date = DateOfSeconds(sub.current_period_start)
    /\ r.end_date = DateOfSeconds(sub.current_period_end)

\* row r is active and each of its bounds is the period bound of the processor
\* subscription sub, or an instant of the handling where sub carries none
ActiveWithPeriodOrClock(r, sub) ==
    /\ r.status = "active"
    /\ IF sub.current_period_start # 0
       THEN r.start_date = DateOfSeconds(sub.current_period_start)
       ELSE ClockShown(r.start_date)
    /\ IF sub.current_period_end # 0
       THEN r.end_date = DateOfSeconds(sub.current_period_end)
       ELSE ClockShown(r.end_date)

\* the step leaves user u exactly one row, the one u had if u had one, and
\* leaves the rows of the other users alone
UpsertedFor(u) ==
    /\ Cardinality(RowsOf(subscriptions', u)) = 1
    /\ RowsOf(subscriptions, u) # {} => Ids(RowsOf(subscriptions', u)) = Ids(RowsOf(subscriptions, u))
    /\ subscriptions' \ RowsOf(subscriptions', u) = subscriptions \ RowsOf(subscriptions, u)

\* the step leaves every row of user u expired, changes nothing else of any
\* row and creates none
ExpiredFor(u) ==
    /\ \A r \in RowsOf(subscriptions', u) : r.status = "expired"
    /\ Unstatused(subscriptions') = Unstatused(subscriptions)
    /\ Cardinality(subscriptions') = Cardinality(subscriptions)
    /\ subscriptions' \ RowsOf(subscriptions', u) = subscriptions \ RowsOf(subscriptions, u)

\* C8, as claimed: a customer.subscription.updated/deleted event with a user
\* id: for processor status active or trialing the user's row exists
\* afterwards (created if absent), active, with the processor's current
\* period bounds; for every other status the user's existing row is expired
\* afterwards and no row is created.
C8_PeriodOfProcessor ==
    [][\A h \in Handlers :
         Written(h, "subUpsert") \/ Written(h, "subExpire") =>
            IF ev[h].status \in {"active", "trialing"}
            THEN /\ UpsertedFor(ev[h].metadata_userId)
                 /\ \A r \in RowsOf(subscriptions', ev[h].metadata_userId) :
                       ActiveWithPeriodOf(r, fullSubscription[h])
            ELSE ExpiredFor(ev[h].metadata_userId)]_vars

\* C8, amended: as claimed, except that a period bound the retrieved
\* processor subscription does not carry is written as the time of the
\* handling.
C8_SubscriptionEvent ==
    [][\A h \in Handlers :
         Written(h, "subUpsert") \/ Written(h, "subExpire") =>
            IF ev[h].status \in {"active", "trialing"}
            THEN /\ UpsertedFor(ev[h].metadata_userId)
                 /\ \A r \in RowsOf(subscriptions', ev[h].metadata_userId) :
                       ActiveWithPeriodOrClock(r, fullSubscription[h])
            ELSE ExpiredFor(ev[h].metadata_userId)]_vars

\* a trialing subscription of u1 has made the lapsed row of u1 active with
\* the processor's period
C8_Witness ==
    /\ out.event.type \in SubscriptionTypes /\ out.event.status = "trialing"
    /\ out.event.subscription = "sub_1" /\ out.failed = {} /\ out.status = 200
    /\ \E r \in subscriptions :
          /\ r.id = LapsedRow.id /\ r.user_id = "u1" /\ r.status = "active"
          /\ r.start_date = DateOfSeconds(PeriodStart(period))
          /\ r.end_date = DateOfSeconds(PeriodEnd(period))

\* C9, as claimed: an invoice.payment_succeeded event whose subscription has a
\* user id leaves that user's row active with start and end equal to the
\* processor's current period, whatever the row was before and also when
\* there was none.
C9_PeriodOfProcessor ==
    [][\A h \in Handlers :
         Written(h, "paidUpsert") =>
            /\ UpsertedFor(SubMetaUser(ev[h].subscription))
            /\ \A r \in RowsOf(subscriptions', SubMetaUser(ev[h].subscription)) :
                  ActiveWithPeriodOf(r, fullSubscription[h])]_vars

\* C9, amended: as claimed, except that a period bound the retrieved
\* processor subscription does not carry is written as the time of the
\* handling.
C9_PaymentSucceeded ==
    [][\A h \in Handlers :
         Written(h, "paidUpsert") =>
            /\ fullSubscription[h].id = ev[h].subscription
            /\ UpsertedFor(SubMetaUser(ev[h].subscription))
            /\ \A r \in RowsOf(subscriptions', SubMetaUser(ev[h].subscription)) :
                  ActiveWithPeriodOrClock(r, fullSubscription[h])]_vars

\* a payment for u1's subscription, which the processor has renewed, has made
\* the lapsed (expired) row of u1 active with the processor's period
C9_Witness ==
    /\ out.event.type = "invoice.payment_succeeded"
    /\ out.event.subscription = "sub_1" /\ out.failed = {} /\ out.status = 200
    /\ period = MaxPeriod
    /\ \E r \in subscriptions :
          /\ r.id = LapsedRow.id /\ r.user_id = "u1" /\ r.status = "active"
          /\ r.plan_type = "month"
          /\ r.start_date = DateOfSeconds(PeriodStart(MaxPeriod))
          /\ r.end_date = DateOfSeconds(PeriodEnd(MaxPeriod))

\* C10: an invoice.payment_failed event whose subscription has a user id
\* leaves that user's row expired, changes no other field of the row, and
\* changes no other user's row.
C10_PaymentFailed ==
    [][\A h \in Handlers :
         Written(h, "unpaidExpire") => ExpiredFor(SubMetaUser(ev[h].subscription))]_vars

\* a failed payment for u2's subscription has expired the row a checkout of
\* u2 had written, while the row of u1 is as it was
C10_Witness ==
    /\ out.event.type = "invoice.payment_failed"
    /\ out.event.subscription = "sub_2" /\ out.failed = {} /\ out.status = 200
    /\ \E r \in subscriptions :
          r.user_id = "u2" /\ r.status = "expired" /\ r.plan_type = "quarterly"
    /\ LapsedRow \in subscriptions

\* the steps in which the subscription and invoice branches write
UpsertSteps == {"subUpsert", "paidUpsert"}
ExpireSteps == {"subExpire", "unpaidExpire"}

\* the table a second handling of h's event leaves, right after h's, while
\* the processor shows what h retrieved and the clock shows instant t
HandledAgain(h, t) ==
    Handled(subscriptions', nextId', ev[h], fullSubscription[h], ClockAt(t))

\* C11, as claimed: handling the same subscription or invoice event a second
\* time, with the processor unchanged, leaves the subscriptions table exactly
\* as the first handling left it.
C11_ReplaySameTable ==
    [][\A h \in Handlers : \A step \in UpsertSteps \cup ExpireSteps :
         Written(h, step) =>
            \A t \in tick' .. MaxTick : HandledAgain(h, t) = subscriptions']_vars

\* C11, amended: the second handling adds no row and leaves the table as the
\* first left it, except that on the upserting paths a period bound the
\* processor subscription does not carry is written again, as the time of the
\* second handling, into the user's row.
C11_ReplayIdempotent ==
    [][\A h \in Handlers : \A step \in UpsertSteps \cup ExpireSteps :
         Written(h, step) =>
            LET sub == fullSubscription[h] IN
            /\ \E t \in 0 .. tick :
                  subscriptions' = Handled(subscriptions, nextId, ev[h], sub, ClockAt(t))
            /\ \A t \in tick' .. MaxTick :
                  /\ Cardinality(HandledAgain(h, t)) = Cardinality(subscriptions')
                  /\ Ids(HandledAgain(h, t)) = Ids(subscriptions')
                  /\ HandledAgain(h, t) =
                        IF step \in ExpireSteps THEN subscriptions'
                        ELSE {IF r.user_id # userId[h] THEN r
                              ELSE [r EXCEPT
                                      !.start_date = IF sub.current_period_start # 0
                                                     THEN @ ELSE ClockAt(t),
                                      !.end_date = IF sub.current_period_end # 0
                                                   THEN @ ELSE ClockAt(t)] :
                                 r \in subscriptions'}]_vars

\* the second of two deliveries, an active subscription of u1 that carries
\* its period, has been handled while the clock can still move on, and a
\* further handling of it would write the same table
C11_Witness ==
    /\ nreq = MaxRequests /\ tick < MaxTick
    /\ out.event.type = "customer.subscription.updated" /\ out.event.status = "active"
    /\ out.event.subscription = "sub_1" /\ out.failed = {} /\ out.status = 200
    /\ \E r \in subscriptions : r.user_id = "u1" /\ r.status = "active" /\ r.plan_type = "month"
    /\ Handled(subscriptions, nextId, out.event, Retrieve("sub_1", period), ClockAt(MaxTick))
          = subscriptions

\* the calendar months a plan runs
PlanMonths(planType) ==
    IF planType = "monthly" THEN 1 ELSE IF planType = "quarterly" THEN 3 ELSE 12

\* the instant n calendar months after date: the same day of the month and
\* time of day, n months on, or the last day of that month if it is shorter
PlusCalendarMonths(date, n) ==
    LET m == getMonth(date) + n
        y == getFullYear(date) + (m \div 12)
        last == DaysInMonth(y, m % 12)
    IN [day |-> MakeDay(y, m % 12, IF getDate(date) < last THEN getDate(date) ELSE last),
        ms |-> date.ms]

\* C12, as claimed: the row a checkout-completed handling writes at instant T
\* starts at T and ends one calendar month after T for plan monthly, three
\* for quarterly and twelve for yearly, also when T is the last day of a
\* month.
C12_EndIsCalendarSum ==
    [][\A h \in Handlers :
         CheckoutWritten(h) =>
            \A r \in RowsOf(subscriptions', userId[h]) :
               /\ r.start_date = startDate[h]
               /\ ClockShown(r.start_date)
               /\ r.end_date = PlusCalendarMonths(r.start_date, PlanMonths(r.plan_type))]_vars

\* ------------------------------------------------ properties of the pages
\* the length in metres of the arc between two latitudes of one meridian
ArcLength(a, b) == IF a <= b THEN b - a ELSE a - b

\* the filter of tab c's search runs in this step
Filters(c) == at[c] = "findProfiles" /\ at'[c] = "idle"

RouteById(id) == CHOOSE r \in OfferedRoutes : r.id = id

\* C13: when a search filters the routes it fetched, a route is in the match
\* result if and only if its pickup is at most 3 km from the rider's pickup
\* and its drop-off at most 3 km from the rider's drop-off; exactly 3 km is
\* within, and one end within is not enough.
C13_MatchIffBothEndsWithin ==
    [][\A c \in Tabs :
         Filters(c) =>
            /\ matchingRoutes'[c] \subseteq allRoutes[c]
            /\ \A r \in allRoutes[c] :
                  r \in matchingRoutes'[c] <=>
                     /\ ArcLength(pickupCoords[c].lat, r.pickup_lat) <= 3000
                     /\ ArcLength(dropoffCoords[c].lat, r.dropoff_lat) <= 3000]_vars

\* one search has matched r2, both of whose ends are exactly 3 km off the
\* rider's, and another has left r2 out, whose drop-off is 3001 m off while
\* its pickup is within
C13_Witness ==
    /\ at = [c \in Tabs |-> "idle"]
    /\ pickupCoords[1] = Point(0) /\ dropoffCoords[1] = Point(20001)
    /\ matchingRoutes[1] = {RouteById("r1"), RouteById("r2")}
    /\ pickupCoords[2] = Point(0) /\ dropoffCoords[2] = Point(20000)
    /\ matchingRoutes[2] = {RouteById("r1")}

\* C14: the match result of a tab never holds a route of the user signed in
\* there nor a route that is not active, and no step of a search changes the
\* routes, requests, subscriptions or profiles table.
C14_SearchResultAndNoWrite ==
    [][/\ \A c \in Tabs : \A r \in matchingRoutes'[c] :
             r.car_owner_id # session[c] /\ r.is_active
       /\ car_owner_routes' = car_owner_routes
       /\ route_requests' = route_requests
       /\ subscriptions' = subscriptions
       /\ profiles' = profiles]_vars

\* a search of u1 has matched r1 and left out r3 (inactive) and r4 (u1's
\* own), which start and end where r1 does
C14_Witness ==
    /\ at[1] = "idle" /\ session[1] = "u1"
    /\ matchingRoutes[1] = {RouteById("r1")}
    /\ {RouteById("r3"), RouteById("r4")} \subseteq car_owner_routes
    /\ WithinDeviation(RouteById("r3"), pickupCoords[1], dropoffCoords[1])
    /\ WithinDeviation(RouteById("r4"), pickupCoords[1], dropoffCoords[1])

\* tab c's dialog asks for more seats than its selected route has
AsksTooManySeats(c) ==
    /\ selectedRoute[c] # NoRoute
    /\ requestedSeats[c] > selectedRoute[c].seats_available

DialogOf(c) == <<selectedRoute[c], requestDialogOpen[c], requestMessage[c], requestedSeats[c]>>

\* C15: a send that asks for more seats than the selected route has goes no
\* further than the seat check: the handler does not reach its first call of
\* the store, the "Only N seat(s) available" message is shown, no request is
\* inserted and the dialog keeps its route, seats and message; and that
\* message is shown for no other reason.
C15_TooManySeatsRejected ==
    [][\A c \in Tabs :
         /\ (at[c] = "idle" /\ AsksTooManySeats(c)) => at'[c] = "idle"
         /\ toast' = Toast(c, "Only N seat(s) available") =>
               /\ AsksTooManySeats(c)
               /\ at'[c] = "idle"
               /\ route_requests' = route_requests
               /\ DialogOf(c)' = DialogOf(c)]_vars

\* the rider of tab 1 has just asked for two seats on r1, which has one
C15_Witness ==
    /\ toast = Toast(1, "Only N seat(s) available")
    /\ selectedRoute[1] = RouteById("r1")
    /\ requestedSeats[1] = 2
    /\ requestDialogOpen[1]
    /\ at[1] = "idle"

\* C16: there is at most one request per requester and route.
C16_OneRequestPerPair ==
    \A q1, q2 \in route_requests :
        (q1.requester_id = q2.requester_id /\ q1.route_id = q2.route_id) => q1 = q2

RouteOwner(id) == RouteById(id).car_owner_id

RequestIds(tbl) == {q.id : q \in tbl}

RequestById(tbl, id) == CHOOSE q \in tbl : q.id = id

\* tab c accepts or rejects a request in this step
Decides(c) == page[c] = "requests" /\ at[c] = "idle" /\ at'[c] = "loadUser"

\* C17: a request enters the table with status pending; no request leaves
\* the table; and the status of a request changes only in a step in which
\* the owner of the request's route, on the requests page, accepts or
\* rejects it (a list that failed to reload lets the owner decide again on
\* a request already decided).
C17_StatusByRouteOwner ==
    [][/\ RequestIds(route_requests) \subseteq RequestIds(route_requests')
       /\ \A q \in route_requests' :
             IF q.id \notin RequestIds(route_requests)
             THEN q.status = "pending"
             ELSE LET old == RequestById(route_requests, q.id)
                  IN /\ [q EXCEPT !.status = old.status] = old
                     /\ q.status # old.status =>
                           /\ q.status \in {"accepted", "rejected"}
                           /\ \E c \in Tabs :
                                 Decides(c) /\ session[c] = RouteOwner(q.route_id)]_vars

\* u2 has accepted a request of u1 for a route of u2, while u1's pages hold
\* a second, pending request
C17_Witness ==
    /\ \E q \in route_requests :
          /\ q.status = "accepted"
          /\ q.requester_id = "u1"
          /\ RouteOwner(q.route_id) = "u2"
    /\ \E q \in route_requests : q.status = "pending"
    /\ session[2] = "u2" /\ page[2] = "requests"

\* ------------------------------------------- properties of the middleware
\* the enumerated public paths
PublicSet ==
    {<<"/">>, <<"/auth", "/signin">>, <<"/auth", "/signup">>,
     <<"/auth", "/forgot-password">>, <<"/auth", "/reset-password">>,
     <<"/auth", "/callback">>}

\* the pathnames of Paths under which the framework serves static assets
StaticAssetPaths ==
    {<<"/_next", "/static", "/chunks/main.js">>, <<"/_next", "/data/index.json">>,
     <<"/static", "/logo.png">>, <<"/favicon.ico">>}

AuthPages == PublicSet \ {<<"/">>}

\* C18: a request without a valid session for a path that is neither in the
\* public set nor a static asset path is answered with a redirect to
\* /auth/signin that carries its pathname in redirectedFrom, never passed on.
C18_NoSessionRedirected ==
    (/\ answered.handler # 0
     /\ ~answered.cookie
     /\ answered.pathname \notin PublicSet
     /\ answered.pathname \notin StaticAssetPaths)
    => /\ answered.kind = "redirect"
       /\ answered.location = <<"/auth", "/signin">>
       /\ answered.redirectedFrom = answered.pathname

\* C19: a request with a valid session for one of the public auth pages is
\* answered with a redirect to /dashboard.
C19_SignedInLeavesAuthPages ==
    (/\ answered.handler # 0
     /\ answered.cookie
     /\ answered.pathname \in AuthPages)
    => /\ answered.kind = "redirect"
       /\ answered.location = <<"/dashboard">>

\* ------------------------- properties of the create-checkout-session route
\* the body is an object that lacks a field, or names a plan type outside
\* monthly, quarterly, yearly
MissingOrInvalid(b) ==
    /\ b.json
    /\ \/ b.planType = None
       \/ b.planPrice = NoPrice
       \/ b.planType \notin {"monthly", "quarterly", "yearly"}

\* C20: a request without a session is answered 401; a request with a
\* session whose body lacks planType or planPrice, or names a plan type
\* outside monthly, quarterly, yearly, is answered 400; neither creates a
\* checkout session; and a checkout session is created only in answer to a
\* request with a session, a plan type of that set and a price, bound to the
\* caller and to that plan.
C20_CheckoutSessionGuarded ==
    [][/\ reply'.status # 0 =>
            /\ reply'.caller = None => reply'.status = 401
            /\ (reply'.caller # None /\ MissingOrInvalid(reply'.body)) =>
                  reply'.status = 400
            /\ reply'.status \in {400, 401} => checkoutSessions' = checkoutSessions
       /\ checkoutSessions' # checkoutSessions =>
            /\ reply'.status = 200
            /\ reply'.caller # None
            /\ reply'.body.planType \in {"monthly", "quarterly", "yearly"}
            /\ reply'.body.planPrice \in Prices
            /\ \E n \in checkoutSessions' \ checkoutSessions :
                  /\ checkoutSessions' = checkoutSessions \cup {n}
                  /\ n.client_reference_id = reply'.caller
                  /\ n.metadata.planType = reply'.body.planType]_vars

\* after a session was created for u1, a request of u1 for the plan type
\* "weekly" has just been answered 400
C20_Witness ==
    /\ reply.status = 400
    /\ reply.caller = "u1"
    /\ reply.body.planType = "weekly"
    /\ reply.body.planPrice \in Prices
    /\ checkoutSessions # {}

\* ------------------------------------------- properties of a failed search
\* the route fetch of tab c's search fails in this step
FetchFails(c) == at[c] = "findRoutes" /\ at'[c] = "idle"

\* C21: when the route fetch of a search fails, the error is reported, the
\* search ends, and the match list shown is empty, whatever an earlier
\* search had found.
C21_FailedSearchShowsNothing ==
    [][\A c \in Tabs :
         FetchFails(c) =>
            /\ toast' = Toast(c, "Failed to fetch routes. Please try again.")
            /\ matchingRoutes'[c] = {}]_vars

\* ------------------------------------------- properties of the event order
\* C22: no write of the handler looks at what the row holds: a successful
\* write of a checkout or of an active subscription or paid invoice leaves
\* the user's row as that event describes it, and a successful write of an
\* ended subscription or failed payment leaves it as it was but expired,
\* whichever events were handled before. The row after two events is the one
\* the event handled last wrote.
C22_LastHandledWins ==
    [][\A h \in Handlers :
         LET before == RowsOf(subscriptions, userId[h])
             after == RowsOf(subscriptions', userId[h]) IN
         /\ CheckoutWritten(h) =>
               /\ after # {}
               /\ \A r \in after :
                     r = CheckoutRow(r.id, userId[h], ev[h], startDate[h], endDate[h])
         /\ \A step \in UpsertSteps :
               Written(h, step) =>
                  /\ after # {}
                  /\ \A r \in after :
                        r = UpsertRow(r.id, userId[h], fullSubscription[h],
                                      startDate[h], endDate[h])
         /\ \A step \in ExpireSteps :
               Written(h, step) =>
                  after = {[r EXCEPT !.status = "expired"] : r \in before}]_vars

\* a failed payment for sub_1, handled after an event that had written the
\* processor's newest period into u1's row, has left that row expired
C22_Witness ==
    /\ out.event.type = "invoice.payment_failed"
    /\ out.event.subscription = "sub_1" /\ out.failed = {} /\ out.status = 200
    /\ period = MaxPeriod
    /\ \E r \in subscriptions :
          /\ r.user_id = "u1" /\ r.status = "expired"
          /\ r.start_date = DateOfSeconds(PeriodStart(MaxPeriod))
          /\ r.end_date = DateOfSeconds(PeriodEnd(MaxPeriod))

\* ------------------------------------- properties of the gate and the webhook
\* the pathname the processor posts its events to: an API route, outside
\* the public paths
WebhookPath == <<"/api/stripe/webhook">>

\* C23: a POST of the processor to the webhook route, which carries no
\* session cookie, is passed on to the route by the gate and not redirected.
C23_WebhookPassesGate ==
    (/\ answered.handler # 0
     /\ ~answered.cookie
     /\ answered.pathname = WebhookPath)
    => answered.kind \in {"next", "skipped"}

\* --------------------- properties of subscriptions bought through the app
\* the subscriptions table after the webhook has handled the completed
\* checkout of session n, from an empty table
AfterCheckout(n) ==
    LET e == CompletedEvent(n) IN
    {CheckoutRow(1, SessionUserId(e), e, ClockAt(0),
                 PlanEndDate(ClockAt(0), SessionPlanType(e)))}

\* C24: for every checkout session the endpoint created, once its checkout
\* is completed and handled, the handling of customer.subscription.deleted
\* or of invoice.payment_failed for the session's subscription leaves the
\* buyer's row expired.
C24_EndOfBoughtSubscriptionExpires ==
    \A n \in checkoutSessions :
       \A type \in {"customer.subscription.deleted", "invoice.payment_failed"} :
          LET sub == SubscriptionOf(n)
              e == SubscriptionEvent(type, sub, "canceled")
              tbl == Handled(AfterCheckout(n), 2, e, sub, ClockAt(0)) IN
          /\ RowsOf(tbl, n.client_reference_id) # {}
          /\ \A r \in RowsOf(tbl, n.client_reference_id) : r.status = "expired"

\* ------------------------------------------ properties of events for no one
InvoiceTypes == {"invoice.payment_succeeded", "invoice.payment_failed"}

\* event e is of a type the handler has no branch for, or a completed
\* checkout of another mode than subscription, or a subscription or invoice
\* event whose subscription carries no user id (or an invoice without one)
HandledTypes == CheckoutTypes \cup SubscriptionTypes \cup InvoiceTypes

ForNoOne(e) ==
    /\ e.type # None
    /\ \/ e.type \notin HandledTypes
       \/ e.type = "checkout.session.completed" /\ e.mode # "subscription"
       \/ e.type \in SubscriptionTypes /\ e.metadata_userId = None
       \/ e.type \in InvoiceTypes
          /\ (e.subscription = None \/ SubMetaUser(e.subscription) = None)

\* the response sent in this step is handler h's to a verified event for no
\* one
AnswersForNoOne(h) ==
    out'.handler = h /\ out'.signature = "verified" /\ ForNoOne(out'.event)

\* handler h takes a step of its handling of an event for no one
StepsForNoOne(h) ==
    \/ AnswersForNoOne(h)
    \/ pc'[h] # pc[h] /\ (ForNoOne(ev[h]) \/ ForNoOne(ev'[h]))

\* the response sent in this step is the success acknowledgement of its event
Acknowledged == out'.status = 200 /\ out'.eventType = out'.event.type

\* the response sent in this step is the server error sent after the
\* retrieval of the invoice's subscription has thrown
RetrieveThrew(h) ==
    /\ out'.event.type \in InvoiceTypes /\ out'.event.subscription # None
    /\ pc[h] \in {"paidRetrieve", "unpaidRetrieve"}
    /\ out'.status = 500 /\ out'.eventType = None

\* C25, as claimed: a verified event for no one leaves the subscriptions and
\* profiles tables unchanged and is acknowledged with success and the event
\* type.
C25_ForNoOneAcknowledged ==
    [][\A h \in Handlers :
         pc'[h] # pc[h] \/ out'.handler = h =>
            /\ (subscriptions' = subscriptions /\ profiles' = profiles) \/ ~StepsForNoOne(h)
            /\ Acknowledged \/ ~AnswersForNoOne(h)]_vars

\* C25, amended: a verified event for no one leaves the subscriptions and
\* profiles tables unchanged in every step of its handling, and it is
\* acknowledged with success and the event type, unless it is an invoice
\* event whose subscription the handler has to retrieve and the retrieval
\* throws: that one is answered with a server error. Only such an invoice
\* event is not answered at once.
C25_ForNoOneAcknowledgedUnlessThrown ==
    [][\A h \in Handlers :
         pc'[h] # pc[h] \/ out'.handler = h =>
            /\ (subscriptions' = subscriptions /\ profiles' = profiles) \/ ~StepsForNoOne(h)
            /\ Acknowledged \/ RetrieveThrew(h) \/ ~AnswersForNoOne(h)
            /\ ForNoOne(ev'[h]) =>
                  ev'[h].type \in InvoiceTypes /\ ev'[h].subscription # None]_vars

\* a payment_failed event of a subscription without a user id has been
\* acknowledged while the table holds an active row
C25_Witness ==
    /\ out.signature = "verified"
    /\ out.event.type = "invoice.payment_failed"
    /\ out.event.subscription = "sub_3"
    /\ out.status = 200 /\ out.eventType = "invoice.payment_failed"
    /\ \E r \in subscriptions : r.status = "active"

\* ------------------------------------------------- properties of the seats
\* Schedule.tsx 92-104, 118: the occupied seats the schedule shows for a
\* route, the requested seats of its accepted requests added up
RECURSIVE SumSeats(_)
SumSeats(rows) ==
    IF rows = {} THEN 0
    ELSE LET q == CHOOSE x \in rows : TRUE IN q.requested_seats + SumSeats(rows \ {q})

occupiedSeats(tbl, route_id) ==
    SumSeats({q \in tbl : q.route_id = route_id /\ q.status = "accepted"})

\* C26, as claimed: for every route the occupied seat count the schedule
\* shows does not exceed the route's seats_available.
C26_OccupiedWithinSeats ==
    \A r \in car_owner_routes : occupiedSeats(route_requests, r.id) <= r.seats_available

\* C27, as claimed: once a request is accepted or rejected its status never
\* changes again.
C27_DecidedStaysDecided ==
    [][\A q \in route_requests : \A n \in route_requests' :
          n.id = q.id /\ q.status # "pending" => n.status = q.status]_vars

\* C28, as claimed: every route_requests row has requested_seats >= 1,
\* whatever was typed into the seat input.
C28_AtLeastOneSeat ==
    \A q \in route_requests : q.requested_seats >= 1

\* ------------------------------------------- properties of the register page
\* a is a later instant than b
Later(a, b) == a.day > b.day \/ (a.day = b.day /\ a.ms > b.ms)

\* user u has a subscription row that is active and ends after `now`
HasRunning(tbl, u, now) ==
    \E r \in tbl : r.user_id = u /\ r.status = "active" /\ Later(r.end_date, now)

\* C29: the register page goes on to its insert only from its subscription
\* check, and only if at that check the signed-in user has a row with status
\* active and an end date later than the time then; a route row is inserted
\* only by that insert, for that user. Without such a row the check inserts
\* nothing and leaves the tab on its way to the subscription page.
C29_RouteNeedsRunningSubscription ==
    [][/\ \A c \in Tabs :
            /\ at'[c] = "createInsert" /\ at[c] # "createInsert" =>
                  /\ at[c] = "createSub"
                  /\ HasRunning(subscriptions, session[c], ClockAt(tick'))
            /\ at[c] = "createSub" /\ at'[c] # "createSub"
               /\ ~HasRunning(subscriptions, session[c], ClockAt(tick')) =>
                  /\ at'[c] = "toSubscription"
                  /\ car_owner_routes' = car_owner_routes
            /\ at[c] = "toSubscription" /\ at'[c] # "toSubscription" =>
                  /\ page'[c] = "subscription"
                  /\ car_owner_routes' = car_owner_routes
       /\ car_owner_routes' # car_owner_routes =>
            \E c \in Tabs :
               /\ at[c] = "createInsert"
               /\ \A r \in car_owner_routes' \ car_owner_routes : r.car_owner_id = session[c]]_vars

\* u1, whose subscription runs, has registered a route, and in the other tab
\* a user without one is on the way to the subscription page
C29_Witness ==
    /\ subscriptions = {RunningRow}
    /\ tick = 0
    /\ \E r \in car_owner_routes : r.car_owner_id = "u1"
    /\ session[2] = "u2" /\ at[2] = "toSubscription"
    /\ \A r \in car_owner_routes : r.car_owner_id # "u2"

\* ------------------------------- properties of the manual subscription endpoint
\* a row is created as active or made active in this step
Activated == \E r \in subscriptions' : r.status = "active" /\ r \notin subscriptions

\* a profile is set to car_owner in this step
MadeCarOwner == \E u \in Users : profiles'[u] = "car_owner" /\ profiles[u] # "car_owner"

\* a webhook handler that holds a signature-verified event takes this step
VerifiedHandlerSteps == \E h \in Handlers : ev[h] # NoEvent /\ pc'[h] # pc[h]

\* C30, as claimed: a subscription row becomes active, and a profile becomes
\* car_owner, only in a step of the webhook's handling of a
\* signature-verified event.
C30_ActiveOnlyByVerifiedEvent ==
    [][Activated \/ MadeCarOwner => VerifiedHandlerSteps]_vars

====
